---- MODULE Spec2Model ----
(***************************************************************************)
(* Acca-Tracker: the weekly selection manager (app.py), the file-backed    *)
(* cache store (data_manager.py) and the scraper's validation gate         *)
(* (bbc_scraper.py), as one state machine.                                 *)
(*                                                                         *)
(* Time is the local wall clock in minutes; minute 0 of day d is d * 1440  *)
(* where d is the proleptic Gregorian ordinal of the date (Python's        *)
(* date.toordinal()).  A date string "YYYY-MM-DD" is the tuple <<Y, M, D>>.*)
(* A Python value is a record [ty, v]; a Python str is a sequence of runs  *)
(* [c |-> chunk, n |-> repetitions], so that len(), count() and strip()    *)
(* are computed and not assumed.                                           *)
(***************************************************************************)
EXTENDS Integers, Sequences, FiniteSets, TLC

VARIABLES now, selections_files, fixtures_files, memory_cache,
          cache_timestamps, operation_stats, last

\* request threads inside the DataManager: the per-file locks (_file_locks), who
\* owns each lock, where each thread is and how many calls have completed; the
\* scraper objects, the clock they read (time.time()) and the upstream requests
VARIABLES file_locks, locks, pc, completed, clock, scrapers, sent

thread_vars == <<file_locks, locks, pc, completed>>
rate_vars == <<clock, scrapers, sent>>

vars == <<now, selections_files, fixtures_files, memory_cache,
          cache_timestamps, operation_stats, last, thread_vars, rate_vars>>

-----------------------------------------------------------------------------
(* Python values *)

PyStr(t) == [ty |-> "str", v |-> <<[c |-> t, n |-> 1]>>]
Rep(t, k) == [ty |-> "str", v |-> <<[c |-> t, n |-> k]>>]
Cat(a, b) == [ty |-> "str", v |-> a.v \o b.v]
EmptyStr == [ty |-> "str", v |-> <<>>]
PyInt(i) == [ty |-> "int", v |-> i]
PyNone == [ty |-> "none", v |-> 0]
PyDict(f) == [ty |-> "dict", v |-> f]
PyList(s) == [ty |-> "list", v |-> s]
EmptyDict == PyDict([k \in {} |-> PyNone])
\* datetime.isoformat() of the instant t, and a 'YYYY-MM-DD' string
PyIso(t) == [ty |-> "iso", v |-> t]
PyDate(d) == [ty |-> "date", v |-> d]
PyTrue == [ty |-> "bool", v |-> 1]
PyFalse == [ty |-> "bool", v |-> 0]

\* isinstance(x, str); isinstance(x, int) (a bool is an int in Python)
IsStr(x) == x.ty \in {"str", "iso", "date"}
IsInt(x) == x.ty \in {"int", "bool"}
IsDict(x) == x.ty = "dict"
IsList(x) == x.ty = "list"

RECURSIVE RunsLen(_)
RunsLen(r) == IF r = <<>> THEN 0
              ELSE Len(Head(r).c) * Head(r).n + RunsLen(Tail(r))

\* len(value)
PyLen(s) == RunsLen(s.v)

RECURSIVE RunsCount(_, _)
RunsCount(r, chars) ==
    IF r = <<>> THEN 0
    ELSE (IF Head(r).c \in chars THEN Head(r).n ELSE 0) + RunsCount(Tail(r), chars)

\* value.count('<') + value.count('>')
HtmlTags(s) == RunsCount(s.v, {"<"}) + RunsCount(s.v, {">"})

\* len(value.strip())
StripLen(s) ==
    LET keep == {i \in DOMAIN s.v : s.v[i].c # " " /\ s.v[i].n > 0}
    IN IF keep = {} THEN 0
       ELSE LET lo == CHOOSE i \in keep : \A j \in keep : i <= j
                hi == CHOOSE i \in keep : \A j \in keep : j <= i
            IN RunsLen(SubSeq(s.v, lo, hi))

-----------------------------------------------------------------------------
(* Calendar: datetime.date, strftime('%Y-%m-%d'), strptime *)

MinutesPerDay == 1440
MinutesPerHour == 60

\* now.date() as an ordinal
DateOf(t) == t \div MinutesPerDay
MinuteOfDay(t) == t % MinutesPerDay
Midnight(ord) == ord * MinutesPerDay

\* date.weekday(): 0 = Monday ... 6 = Sunday
Weekday(ord) == (ord + 6) % 7

IsLeap(y) == (y % 4 = 0 /\ y % 100 # 0) \/ y % 400 = 0
DaysInMonth(y, m) == IF m = 2 THEN (IF IsLeap(y) THEN 29 ELSE 28)
                     ELSE IF m \in {4, 6, 9, 11} THEN 30 ELSE 31

\* ordinal of 31 December of year y - 1 plus one is 1 January of year y
DaysBeforeYear(y) == (y - 1) * 365 + (y - 1) \div 4 - (y - 1) \div 100 + (y - 1) \div 400

RECURSIVE DaysBeforeMonth(_, _)
DaysBeforeMonth(y, m) == IF m = 1 THEN 0
                         ELSE DaysBeforeMonth(y, m - 1) + DaysInMonth(y, m - 1)

\* strftime('%Y-%m-%d') of the date with this ordinal
strftime(ord) ==
    LET y0 == ord \div 366 + 1
        RECURSIVE Year(_)
        Year(y) == IF DaysBeforeYear(y + 1) < ord THEN Year(y + 1) ELSE y
        y == Year(y0)
        doy == ord - DaysBeforeYear(y)
        RECURSIVE Month(_)
        Month(m) == IF DaysBeforeMonth(y, m) + DaysInMonth(y, m) < doy
                    THEN Month(m + 1) ELSE m
        mo == Month(1)
    IN <<y, mo, doy - DaysBeforeMonth(y, mo)>>

\* datetime.strptime(s, '%Y-%m-%d') raises ValueError
BadDate(s) == ~ (/\ s[1] >= 1
                 /\ s[2] \in 1..12
                 /\ s[3] >= 1
                 /\ s[3] <= DaysInMonth(s[1], s[2]))

\* datetime.strptime(s, '%Y-%m-%d'), as an ordinal (the time part is 00:00)
strptime(s) == DaysBeforeYear(s[1]) + DaysBeforeMonth(s[1], s[2]) + s[3]

\* comparison of two 'YYYY-MM-DD' strings
DateStrLeq(a, b) ==
    \/ a[1] < b[1]
    \/ a[1] = b[1] /\ a[2] < b[2]
    \/ a[1] = b[1] /\ a[2] = b[2] /\ a[3] <= b[3]

-----------------------------------------------------------------------------
(* app.py: the current prediction week *)

Saturday == 5
Sunday == 6

\* the 12:01 cut-over of the superseded design (test_prediction_week.py)
get_current_prediction_week_cutoff(t) ==
    LET current_day == Weekday(DateOf(t))
        days == IF current_day = Saturday
                THEN (IF MinuteOfDay(t) >= 12 * MinutesPerHour + 1 THEN 7 ELSE 0)
                ELSE IF current_day = Sunday THEN 6
                ELSE 5 - current_day
    IN strftime(DateOf(t) + days)

\* Sunday has lost its own case and falls into the Monday-Friday formula
get_current_prediction_week_no_sunday(t) ==
    LET current_day == Weekday(DateOf(t))
    IN strftime(DateOf(t) + (IF current_day = Saturday THEN 0 ELSE 5 - current_day))

get_current_prediction_week(t) ==
    LET current_day == Weekday(DateOf(t))
        target_date ==
            IF current_day = Saturday
            THEN DateOf(t)
            ELSE DateOf(t) + (IF current_day = Sunday
                              THEN 6
                              ELSE 5 - current_day)
    IN strftime(target_date)

-----------------------------------------------------------------------------
(* The clock and the last call made (operation, arguments, return value) *)

\* the first day of every run: Saturday 2024-10-19
StartDate == strptime(<<2024, 10, 19>>)

NoCall == [op |-> "none"]

\* the request threads of the server
NumThreads == 2
Threads == 1..NumThreads
\* the id of self._lock in locks; the per-file locks are numbered from 1
GeneralLock == 0
IdleThread == [at |-> "idle", op |-> "", filepath |-> <<>>, lock |-> 0, tmp |-> 0,
               files_to_remove |-> {}, calls |-> 0, seen |-> {}, raised |-> FALSE]

\* time.time() as the process starts, in seconds: far beyond every rate limit
ProcessStart == MinutesPerDay

\* DataManager.__init__ and no scraper yet: no file lock, self._lock free,
\* every thread outside the DataManager, no request sent
Constructed ==
    /\ file_locks = [f \in {} |-> 0]
    /\ locks = [l \in {GeneralLock} |-> 0]
    /\ pc = [t \in Threads |-> IdleThread]
    /\ completed = [reads |-> 0, writes |-> 0, cache_misses |-> 0]
    /\ clock = ProcessStart
    /\ scrapers = <<>>
    /\ sent = [count |-> 0, at |-> 0]

\* a step of one call made while no other thread is in the DataManager
OneThread == UNCHANGED <<thread_vars, rate_vars>>

InitAt(times) ==
    /\ Constructed
    /\ now \in times
    /\ selections_files = [p \in {} |-> PyNone]
    /\ fixtures_files = [p \in {} |-> PyNone]
    /\ memory_cache = [k \in {} |-> PyNone]
    /\ cache_timestamps = [k \in {} |-> 0]
    /\ operation_stats = [reads |-> 0, writes |-> 0, cache_hits |-> 0, cache_misses |-> 0]
    /\ last = NoCall

\* wall-clock time passes, to one of the instants the run observes
Advance(instants, max_jump) ==
    /\ \E t \in instants : now < t /\ t <= now + max_jump /\ now' = t
    /\ OneThread
    /\ UNCHANGED <<selections_files, fixtures_files, memory_cache,
                   cache_timestamps, operation_stats>>

-----------------------------------------------------------------------------
(* Specification SpecWeek: the prediction week as the clock advances *)

WeekDays == 9
WeekTimesOfDay == {0, 12 * MinutesPerHour, 12 * MinutesPerHour + 1, MinutesPerDay - 1}
WeekInstants == {Midnight(StartDate + k) + m : k \in 0..WeekDays, m \in WeekTimesOfDay}

WeekTick == Advance(WeekInstants, MinutesPerDay) /\ UNCHANGED last

WeekCall ==
    /\ OneThread
    /\ last' = [op |-> "get_current_prediction_week", at |-> now,
                ret |-> get_current_prediction_week(now)]
    /\ UNCHANGED <<now, selections_files, fixtures_files, memory_cache,
                   cache_timestamps, operation_stats>>

InitWeek == InitAt({Midnight(StartDate)})
NextWeek == WeekTick \/ WeekCall
SpecWeek == InitWeek /\ [][NextWeek]_vars

CrossesSaturdayMidnight(t, u) ==
    \E d \in DateOf(t)..DateOf(u) : Weekday(d) = 6 /\ t < Midnight(d) /\ Midnight(d) <= u

-----------------------------------------------------------------------------
(* data_manager.py: DataManager.  Its state is the record                   *)
(* [sel, fix, mem, ts, stats]; a method is an operator from that record to  *)
(* [dm |-> the record afterwards, ret |-> the value returned].              *)

DM == [sel |-> selections_files, fix |-> fixtures_files, mem |-> memory_cache,
       ts |-> cache_timestamps, stats |-> operation_stats]

SetDM(d) ==
    /\ OneThread
    /\ selections_files' = d.sel
    /\ fixtures_files' = d.fix
    /\ memory_cache' = d.mem
    /\ cache_timestamps' = d.ts
    /\ operation_stats' = d.stats

\* the value of the one-element set S: the result of a call, computed once
TheOne(S) == CHOOSE x \in S : TRUE

Without(f, k) == [x \in DOMAIN f \ {k} |-> f[x]]
With(f, k, val) == [x \in DOMAIN f \cup {k} |-> IF x = k THEN val ELSE f[x]]

\* bool(x)
Truthy(x) ==
    CASE x.ty = "none" -> FALSE
      [] x.ty = "dict" -> DOMAIN x.v # {}
      [] x.ty = "list" -> x.v # <<>>
      [] x.ty = "str" -> PyLen(x) > 0
      [] x.ty \in {"int", "bool"} -> x.v # 0
      [] OTHER -> TRUE

BbcCacheTtlHours == 72
SelectionsCacheTtlHours == 12
MemoryCacheTtlMinutes == 5
CompressionThreshold == 1048576
IsoFormatLen == 26
DateFormatLen == 10

RECURSIVE Digits(_)
Digits(i) == IF i < 0 THEN 1 + Digits(-i) ELSE IF i < 10 THEN 1 ELSE 1 + Digits(i \div 10)

RECURSIVE JsonLen(_, _)
RECURSIVE JsonItemsLen(_, _, _)
\* the items of a dict, each on its own line: indent, "key": value
JsonItemsLen(d, keys, ind) ==
    IF keys = {} THEN 0
    ELSE TheOne({1 + ind + Len(k) + 4 + JsonLen(d[k], ind)
                   + TheOne({JsonItemsLen(d, rest, ind) : rest \in {keys \ {k}}}) :
                 k \in {CHOOSE x \in keys : TRUE}})

RECURSIVE JsonElemsLen(_, _)
JsonElemsLen(q, ind) ==
    IF q = <<>> THEN 0
    ELSE 1 + ind + JsonLen(Head(q), ind)
           + TheOne({JsonElemsLen(rest, ind) : rest \in {Tail(q)}})

\* len(json.dumps(x, indent=2, ensure_ascii=False).encode('utf-8')), for x
\* nested at indentation ind
JsonLen(x, ind) ==
    CASE x.ty = "str" -> PyLen(x) + 2
      [] x.ty = "iso" -> IsoFormatLen + 2
      [] x.ty = "date" -> DateFormatLen + 2
      [] x.ty = "int" -> Digits(x.v)
      [] x.ty = "bool" -> IF x.v = 1 THEN 4 ELSE 5
      [] x.ty = "none" -> 4
      [] x.ty = "list" ->
            IF x.v = <<>> THEN 2
            ELSE 1 + JsonElemsLen(x.v, ind + 2) + (Len(x.v) - 1) + 1 + ind + 1
      [] x.ty = "dict" ->
            IF DOMAIN x.v = {} THEN 2
            ELSE 1 + JsonItemsLen(x.v, DOMAIN x.v, ind + 2)
                   + (Cardinality(DOMAIN x.v) - 1) + 1 + ind + 1

\* _get_memory_cache_key(operation, date)
memory_cache_key(operation, date) == <<operation, date>>

Bump(stats, counter) == [stats EXCEPT ![counter] = @ + 1]

\* datetime.now() - cache_time < self._memory_cache_ttl
memory_cache_fresh(cache_time, t) ==
    t - cache_time < MemoryCacheTtlMinutes

get_memory_cache(dm, key, t) ==
    IF key \in DOMAIN dm.mem
    THEN IF memory_cache_fresh(dm.ts[key], t)
         THEN [dm |-> [dm EXCEPT !.stats = Bump(@, "cache_hits")], ret |-> dm.mem[key]]
         ELSE [dm |-> [dm EXCEPT !.mem = Without(@, key), !.ts = Without(@, key),
                                 !.stats = Bump(@, "cache_misses")],
               ret |-> PyNone]
    ELSE [dm |-> [dm EXCEPT !.stats = Bump(@, "cache_misses")], ret |-> PyNone]

set_memory_cache(dm, key, data, t) ==
    [dm EXCEPT !.mem = With(@, key, data), !.ts = With(@, key, t)]

\* the file names of one key: the plain file and its gzip companion
Plain(path) == [path EXCEPT !.gz = FALSE]
Gz(path) == [path EXCEPT !.gz = TRUE]
Exists(files, path) == Plain(path) \in DOMAIN files \/ Gz(path) \in DOMAIN files

\* _save_json_file: io_ok is whether open() and write() succeed
save_json_file(files, path, data, use_compression, io_ok) ==
    IF ~ io_ok THEN [ok |-> FALSE, files |-> files]
    ELSE IF use_compression
    THEN [ok |-> TRUE, files |-> With(files, Gz(path), data)]
    ELSE [ok |-> TRUE, files |-> With(files, Plain(path), data)]

\* _load_json_file, for a key one of whose files exists
load_json_file(files, path) ==
    IF Gz(path) \in DOMAIN files THEN files[Gz(path)] ELSE files[Plain(path)]

ValidPredictions == {PyStr("HOME"), PyStr("AWAY"), PyStr("DRAW"),
                     PyStr("BTTS_YES"), PyStr("BTTS_NO"), PyStr("TBD")}
SelectionRequiredFields == {"home_team", "away_team", "prediction", "confidence"}
MinConfidence == 1
MaxConfidence == 10

\* validate_selections without the range check of the confidence
validate_selections_any_confidence(selections) ==
    /\ IsDict(selections)
    /\ \A match_id \in DOMAIN selections.v :
          /\ IsDict(selections.v[match_id])
          /\ SelectionRequiredFields \subseteq DOMAIN selections.v[match_id].v
          /\ selections.v[match_id].v["prediction"] \in ValidPredictions
          /\ IsInt(selections.v[match_id].v["confidence"])

validate_selections(selections) ==
    /\ IsDict(selections)
    /\ \A match_id \in DOMAIN selections.v :
          LET selection == selections.v[match_id]
          IN /\ IsDict(selection)
             /\ SelectionRequiredFields \subseteq DOMAIN selection.v
             /\ selection.v["prediction"] \in ValidPredictions
             /\ IsInt(selection.v["confidence"])
             /\ selection.v["confidence"].v >= MinConfidence
             /\ selection.v["confidence"].v <= MaxConfidence

SelectionsPath(date) == [date |-> date, gz |-> FALSE]

SelectionsDocument(selections_data, date, t) ==
    PyDict([k \in {"metadata", "selections"} |->
        IF k = "metadata"
        THEN PyDict([m \in {"created_at", "version", "date"} |->
                CASE m = "created_at" -> PyIso(t)
                  [] m = "version" -> PyStr("1.0")
                  [] m = "date" -> PyDate(date)])
        ELSE selections_data])

save_weekly_selections(dm, selections_data, date, t, io_ok) ==
    IF ~ validate_selections(selections_data) THEN [dm |-> dm, ret |-> FALSE]
    ELSE
    LET cache_key == memory_cache_key("selections", date)
    IN TheOne({
        IF got.ret = selections_data THEN [dm |-> got.dm, ret |-> TRUE]
        ELSE TheOne({
            IF ~ saved.ok THEN [dm |-> got.dm, ret |-> FALSE]
            ELSE [dm |-> set_memory_cache(
                             [got.dm EXCEPT !.sel = saved.files,
                                            !.stats = Bump(@, "writes")],
                             cache_key, selections_data, t),
                  ret |-> TRUE] :
            saved \in {LET data_to_save == SelectionsDocument(selections_data, date, t)
                           use_compression ==
                               JsonLen(data_to_save, 0) > CompressionThreshold
                       IN save_json_file(got.dm.sel, SelectionsPath(date), data_to_save,
                                         use_compression, io_ok)}}) :
        got \in {get_memory_cache(dm, cache_key, t)}})

\* data.get("selections", {})
DocumentSelections(data) ==
    IF "selections" \in DOMAIN data.v THEN data.v["selections"] ELSE EmptyDict

load_weekly_selections(dm, date, t) ==
    LET cache_key == memory_cache_key("selections", date)
        path == SelectionsPath(date)
    IN TheOne({
        IF Truthy(got.ret) THEN got
        ELSE IF ~ Exists(got.dm.sel, path) THEN [dm |-> got.dm, ret |-> PyNone]
        ELSE LET data == load_json_file(got.dm.sel, path)
                 read == [got.dm EXCEPT !.stats = Bump(@, "reads")]
                 selections == DocumentSelections(data)
             IN IF ~ validate_selections(selections) THEN [dm |-> read, ret |-> PyNone]
                ELSE [dm |-> set_memory_cache(read, cache_key, selections, t),
                      ret |-> selections] :
        got \in {get_memory_cache(dm, cache_key, t)}})

-----------------------------------------------------------------------------
(* data_manager.py: the fixture cache *)

\* league.replace(' ', '_').lower(), "" when no league is given
LeagueFileSuffix(league) ==
    CASE league = "" -> ""
      [] league = "ALL_LEAGUES" -> "all_leagues"
      [] league = "Premier League" -> "premier_league"
      [] OTHER -> league

FixturesPath(date, league) ==
    [date |-> date, league |-> LeagueFileSuffix(league), gz |-> FALSE]

MetadataTtlHours == 24

FixturesDocument(fixtures_data, date, t) ==
    PyDict([k \in {"metadata", "fixtures"} |->
        IF k = "metadata"
        THEN PyDict([m \in {"cached_at", "expires_at", "ttl_hours", "date"} |->
                CASE m = "cached_at" -> PyIso(t)
                  [] m = "expires_at" -> PyIso(t + BbcCacheTtlHours * MinutesPerHour)
                  [] m = "ttl_hours" -> PyInt(MetadataTtlHours)
                  [] m = "date" -> PyDate(date)])
        ELSE fixtures_data])

\* a put that adds the batch to the payload already stored for the date
cache_bbc_fixtures_appending(dm, fixtures_data, date, t, io_ok) ==
    LET cache_key == memory_cache_key("bbc_fixtures", date)
        path == FixturesPath(date, "")
        merged == IF Exists(dm.fix, path)
                  THEN PyList(load_json_file(dm.fix, path).v["fixtures"].v \o fixtures_data.v)
                  ELSE fixtures_data
    IN TheOne({
        IF got.ret = fixtures_data THEN [dm |-> got.dm, ret |-> TRUE]
        ELSE TheOne({
            IF ~ saved.ok THEN [dm |-> got.dm, ret |-> FALSE]
            ELSE [dm |-> set_memory_cache(
                             [got.dm EXCEPT !.fix = saved.files,
                                            !.stats = Bump(@, "writes")],
                             cache_key, fixtures_data, t),
                  ret |-> TRUE] :
            saved \in {save_json_file(got.dm.fix, path,
                                      FixturesDocument(merged, date, t), FALSE, io_ok)}}) :
        got \in {get_memory_cache(dm, cache_key, t)}})

cache_bbc_fixtures(dm, fixtures_data, date, t, io_ok) ==
    LET cache_key == memory_cache_key("bbc_fixtures", date)
    IN TheOne({
        IF got.ret = fixtures_data THEN [dm |-> got.dm, ret |-> TRUE]
        ELSE TheOne({
            IF ~ saved.ok THEN [dm |-> got.dm, ret |-> FALSE]
            ELSE [dm |-> set_memory_cache(
                             [got.dm EXCEPT !.fix = saved.files,
                                            !.stats = Bump(@, "writes")],
                             cache_key, fixtures_data, t),
                  ret |-> TRUE] :
            saved \in {LET cache_data == FixturesDocument(fixtures_data, date, t)
                           use_compression ==
                               JsonLen(cache_data, 0) > CompressionThreshold
                       IN save_json_file(got.dm.fix, FixturesPath(date, ""), cache_data,
                                         use_compression, io_ok)}}) :
        got \in {get_memory_cache(dm, cache_key, t)}})

\* _cleanup_expired_cache(filepath)
cleanup_expired_cache(files, path) ==
    Without(Without(files, Plain(path)), Gz(path))

FixtureRequiredFields == {"league", "home_team", "away_team", "kickoff"}
ThreePm == PyStr("15:00")

\* _validate_fixture_data that accepts whatever is stored
validate_fixture_data_any(fixtures) == TRUE

\* _validate_fixture_data(fixtures)
validate_fixture_data(fixtures) ==
    /\ IsList(fixtures)
    /\ \A i \in DOMAIN fixtures.v :
          LET fixture == fixtures.v[i]
          IN /\ IsDict(fixture)
             /\ FixtureRequiredFields \subseteq DOMAIN fixture.v
             /\ \A f \in {"league", "home_team", "away_team"} :
                   IsStr(fixture.v[f]) /\ PyLen(fixture.v[f]) # 0
             /\ IsStr(fixture.v["kickoff"])
             /\ fixture.v["kickoff"] = ThreePm

MaxDaysFuture == 14
MaxDaysPast == 7

\* the date window of get_bbc_fixtures with the two limits exchanged
date_outside_window_swapped(date, t) ==
    \/ BadDate(date)
    \/ Midnight(strptime(date)) > t + MaxDaysPast * MinutesPerDay
    \/ Midnight(strptime(date)) < t - MaxDaysFuture * MinutesPerDay

\* "target date is reasonable" fails: strptime raises, or the date is more
\* than 14 days after or more than 7 days before now
date_outside_window(date, t) ==
    \/ BadDate(date)
    \/ Midnight(strptime(date)) > t + MaxDaysFuture * MinutesPerDay
    \/ Midnight(strptime(date)) < t - MaxDaysPast * MinutesPerDay

\* the expiry test of get_bbc_fixtures with a 24-hour metadata TTL
cache_expired_24h(metadata, t) ==
    t > metadata.v["cached_at"].v + MetadataTtlHours * MinutesPerHour

\* datetime.now() > datetime.fromisoformat(metadata["expires_at"])
cache_expired(metadata, t) == t > metadata.v["expires_at"].v

\* cache_data.get("fixtures", [])
DocumentFixtures(cache_data) ==
    IF "fixtures" \in DOMAIN cache_data.v THEN cache_data.v["fixtures"] ELSE PyList(<<>>)

get_bbc_fixtures(dm, date, league, t) ==
    LET path == FixturesPath(date, league)
    IN IF ~ Exists(dm.fix, path) THEN [dm |-> dm, ret |-> PyNone]
       ELSE
       LET cache_data == load_json_file(dm.fix, path)
           read == [dm EXCEPT !.stats = Bump(@, "reads")]
           purged == [read EXCEPT !.fix = cleanup_expired_cache(@, path)]
           fixtures == DocumentFixtures(cache_data)
       IN IF cache_expired(cache_data.v["metadata"], t) THEN [dm |-> purged, ret |-> PyNone]
          ELSE IF date_outside_window(date, t) THEN [dm |-> purged, ret |-> PyNone]
          ELSE IF ~ validate_fixture_data(fixtures) THEN [dm |-> purged, ret |-> PyNone]
          ELSE [dm |-> set_memory_cache(read, memory_cache_key("bbc_fixtures", date),
                                        fixtures, t),
                ret |-> fixtures]

-----------------------------------------------------------------------------
(* bbc_scraper.py: the validation gate and the scraper's use of the cache *)

MaxHtmlTags == 10
MaxValueLen == 1000

\* the gate without its test for HTML content
validate_scraped_matches_no_html(matches) ==
    /\ IsList(matches)
    /\ \A i \in DOMAIN matches.v :
          LET match == matches.v[i]
          IN /\ IsDict(match)
             /\ \A key \in DOMAIN match.v :
                   match.v[key].ty = "str" => PyLen(match.v[key]) <= MaxValueLen
             /\ \A field \in FixtureRequiredFields :
                   /\ field \in DOMAIN match.v
                   /\ IsStr(match.v[field])
                   /\ StripLen(match.v[field]) # 0

\* _validate_scraped_matches(matches)
validate_scraped_matches(matches) ==
    /\ IsList(matches)
    /\ \A i \in DOMAIN matches.v :
          LET match == matches.v[i]
          IN /\ IsDict(match)
             /\ \A key \in DOMAIN match.v :
                   match.v[key].ty = "str" =>
                      /\ HtmlTags(match.v[key]) <= MaxHtmlTags
                      /\ PyLen(match.v[key]) <= MaxValueLen
             /\ \A field \in FixtureRequiredFields :
                   /\ field \in DOMAIN match.v
                   /\ IsStr(match.v[field])
                   /\ StripLen(match.v[field]) # 0

\* _save_cache_data(cache_key, {'matches': matches}, date, league_name)
save_cache_data(dm, matches, date, t, io_ok) ==
    IF ~ validate_scraped_matches(matches) THEN dm
    ELSE cache_bbc_fixtures(dm, matches, date, t, io_ok).dm

\* _get_cached_data(cache_key, date, league_name)
get_cached_data(dm, date, league_name, t) ==
    TheOne({IF Truthy(got.ret) THEN got ELSE [dm |-> got.dm, ret |-> PyNone] :
            got \in {get_bbc_fixtures(dm, date, league_name, t)}})

ScraperCacheDays == 7

\* _is_cache_valid_for_date(target_date)
is_cache_valid_for_date(target_date, t) ==
    /\ ~ BadDate(target_date)
    /\ ~ (Midnight(strptime(target_date)) > t + ScraperCacheDays * MinutesPerDay)
    /\ ~ (strptime(target_date) < DateOf(t))

LEAGUES == {PyStr("Premier League"), PyStr("English Championship"),
            PyStr("English League One"), PyStr("English League Two"),
            PyStr("English National League"), PyStr("Scottish Premiership"),
            PyStr("Scottish Championship"), PyStr("Scottish League One"),
            PyStr("Scottish League Two")}

\* match.get('league', '')
MatchLeague(match) ==
    IF "league" \in DOMAIN match.v THEN match.v["league"] ELSE EmptyStr

\* [match for match in matches if match.get('league', '') in LEAGUES]
SupportedMatches(matches) ==
    PyList(SelectSeq(matches.v, LAMBDA m : MatchLeague(m) \in LEAGUES))

\* a scrape that answers a failed fetch with the fixtures stored for the date
scrape_unified_bbc_matches_stale(dm, target_date, page, t, io_ok) ==
    IF ~ page.ok /\ Exists(dm.fix, FixturesPath(target_date, ""))
    THEN [dm |-> dm,
          ret |-> DocumentFixtures(load_json_file(dm.fix, FixturesPath(target_date, ""))),
          fetched |-> TRUE]
    ELSE [dm |-> IF page.ok /\ Truthy(SupportedMatches(page.matches))
                 THEN save_cache_data(dm, SupportedMatches(page.matches), target_date,
                                      t, io_ok)
                 ELSE dm,
          ret |-> IF page.ok THEN SupportedMatches(page.matches) ELSE PyList(<<>>),
          fetched |-> TRUE]

\* scrape_unified_bbc_matches(target_date, mode): page is the fetch
\* ([ok |-> FALSE] when _make_request returns None, else the matches that
\* _parse_unified_matches finds in it, none when the parsing raises); fetched
\* is whether _make_request was called
scrape_unified_bbc_matches(dm, target_date, page, t, io_ok) ==
    LET supported_matches == SupportedMatches(page.matches)
    IN TheOne({
        IF Truthy(cached.ret) /\ is_cache_valid_for_date(target_date, t)
        THEN [dm |-> cached.dm, ret |-> cached.ret, fetched |-> FALSE]
        ELSE IF ~ page.ok THEN [dm |-> cached.dm, ret |-> PyList(<<>>), fetched |-> TRUE]
        ELSE [dm |-> IF Truthy(supported_matches)
                     THEN save_cache_data(cached.dm, supported_matches, target_date,
                                          t, io_ok)
                     ELSE cached.dm,
              ret |-> supported_matches, fetched |-> TRUE] :
        cached \in {get_cached_data(dm, target_date, "ALL_LEAGUES", t)}})

\* f"{match.get('league', 'Unknown')}_{match.get('home_team', '')}_{match.get('away_team', '')}"
MatchId(match) ==
    LET get(field, default) == IF field \in DOMAIN match.v THEN match.v[field] ELSE default
    IN Cat(get("league", PyStr("Unknown")),
           Cat(PyStr("_"), Cat(get("home_team", EmptyStr),
                               Cat(PyStr("_"), get("away_team", EmptyStr)))))

\* cache_match = match.copy(); cache_match['id'] = ... unless it has one
WithId(match) ==
    IF "id" \in DOMAIN match.v THEN match
    ELSE PyDict(With(match.v, "id", MatchId(match)))

\* app.py get_bbc_matches_for_date(date): the cache first, else both scrapes
\* and a put of whatever they returned
get_bbc_matches_for_date(dm, date, page_fixtures, page_live, t, io_ok) ==
    IF BadDate(date) THEN [dm |-> dm, ret |-> PyNone]
    ELSE
    TheOne({
        IF Truthy(cached.ret) THEN cached
        ELSE TheOne({
            TheOne({
                LET all_matches == fixtures_result.ret.v \o live_result.ret.v
                    cache_data ==
                        PyList([i \in DOMAIN all_matches |-> WithId(all_matches[i])])
                IN [dm |-> IF all_matches # <<>>
                           THEN cache_bbc_fixtures(live_result.dm, cache_data, date,
                                                   t, io_ok).dm
                           ELSE live_result.dm,
                    ret |-> PyList(all_matches)] :
                live_result \in
                    {scrape_unified_bbc_matches(fixtures_result.dm, date, page_live,
                                                t, io_ok)}}) :
            fixtures_result \in
                {scrape_unified_bbc_matches(cached.dm, date, page_fixtures, t, io_ok)}}) :
        cached \in {get_bbc_fixtures(dm, date, "", t)}})

-----------------------------------------------------------------------------
(* Match records and batches the runs draw their inputs from *)

Match(league, home_team, away_team, kickoff, venue) ==
    PyDict([league |-> league, home_team |-> home_team, away_team |-> away_team,
            kickoff |-> kickoff, venue |-> venue, home_score |-> PyInt(0),
            away_score |-> PyInt(0), status |-> PyStr("not_started"),
            match_time |-> PyStr("0'")])

\* a venue of exactly 1000 characters, exactly 10 of them '<' or '>'
EdgeVenue == Cat(Rep("<", MaxHtmlTags \div 2),
                 Cat(Rep("x", MaxValueLen - MaxHtmlTags),
                     Rep(">", MaxHtmlTags - MaxHtmlTags \div 2)))
\* leaked markup: 11 tag characters
HtmlVenue == Cat(Rep("<", MaxHtmlTags \div 2 + 1),
                 Cat(PyStr("div"), Rep(">", MaxHtmlTags - MaxHtmlTags \div 2)))
LongVenue == Rep("x", MaxValueLen + 1)

MatchA == Match(PyStr("Premier League"), PyStr("Arsenal"), PyStr("Chelsea"),
                ThreePm, PyStr("TBC"))
MatchB == Match(PyStr("English Championship"), PyStr("Leeds"), PyStr("Hull"),
                ThreePm, EdgeVenue)
MatchC == Match(PyStr("Scottish Premiership"), PyStr("Celtic"), PyStr("Hearts"),
                ThreePm, PyStr("TBC"))
MatchLate == Match(PyStr("Premier League"), PyStr("Everton"), PyStr("Fulham"),
                   PyStr("17:30"), PyStr("TBC"))
MatchHtml == Match(PyStr("Premier League"), PyStr("Everton"), PyStr("Fulham"),
                   ThreePm, HtmlVenue)
MatchLong == Match(PyStr("Premier League"), PyStr("Everton"), PyStr("Fulham"),
                   ThreePm, LongVenue)
MatchBlank == Match(PyStr("Premier League"), Rep(" ", 3), PyStr("Fulham"),
                    ThreePm, PyStr("TBC"))
MatchEmpty == Match(PyStr("Premier League"), PyStr("Everton"), EmptyStr,
                    ThreePm, PyStr("TBC"))
MatchNonStr == Match(PyNone, PyStr("Everton"), PyStr("Fulham"), ThreePm, PyStr("TBC"))
MatchNoKickoff == PyDict([league |-> PyStr("Premier League"),
                          home_team |-> PyStr("Everton"),
                          away_team |-> PyStr("Fulham")])
MatchUnknownLeague == Match(PyStr("Unknown League"), PyStr("Everton"), PyStr("Fulham"),
                            ThreePm, PyStr("TBC"))

GoodBatch == PyList(<<MatchA, MatchB>>)
OtherBatch == PyList(<<MatchC>>)
\* batches that the gate must reject, each for one rule, after a good element
HtmlBatch == PyList(<<MatchA, MatchHtml>>)
LongBatch == PyList(<<MatchA, MatchLong>>)
BlankBatch == PyList(<<MatchA, MatchBlank>>)
EmptyFieldBatch == PyList(<<MatchA, MatchEmpty>>)
NonStrBatch == PyList(<<MatchA, MatchNonStr>>)
MissingFieldBatch == PyList(<<MatchA, MatchNoKickoff>>)
NonDictBatch == PyList(<<MatchA, PyStr("junk")>>)
NotAList == PyDict([matches |-> GoodBatch])
\* accepted by the gate, rejected on read
LateBatch == PyList(<<MatchA, MatchLate>>)
EmptyBatch == PyList(<<>>)

RejectedBatches == {HtmlBatch, LongBatch, BlankBatch, EmptyFieldBatch, NonStrBatch,
                    MissingFieldBatch, NonDictBatch, NotAList}
Batches == {GoodBatch, OtherBatch, LateBatch, EmptyBatch} \cup RejectedBatches

\* what _parse_unified_matches can return: dicts with every field a string
ParsedBatches == {GoodBatch, OtherBatch, LateBatch, EmptyBatch, HtmlBatch, LongBatch,
                  PyList(<<MatchUnknownLeague>>)}
FailedPage == [ok |-> FALSE, matches |-> EmptyBatch]
Pages == {FailedPage}
            \cup {[ok |-> TRUE, matches |-> b] : b \in ParsedBatches}

-----------------------------------------------------------------------------
(* Specification SpecCache: the fixture cache under puts, scrapes and reads *)

StatsTotal(stats) == stats.reads + stats.writes + stats.cache_hits + stats.cache_misses

\* the run ends once the performance counters add up to MaxOps
MaxOps == 3
WithinOps(dm) == StatsTotal(dm.stats) <= MaxOps

TtlMinutes == BbcCacheTtlHours * MinutesPerHour
CacheStarts == {0, 1}
CacheInstants == {Midnight(StartDate) + a + b :
                    a \in CacheStarts,
                    b \in {0, TtlMinutes - 1, TtlMinutes, TtlMinutes + 1}}
InWindowDate == strftime(StartDate)
CacheDates == {strftime(StartDate - MaxDaysPast), strftime(StartDate - 4),
               InWindowDate, strftime(StartDate + MaxDaysFuture + 3),
               <<2024, 13, 1>>}
CacheLeagues == {"", "ALL_LEAGUES"}
\* every batch for a date inside the window, a good batch for every date
CachePuts == {<<b, InWindowDate>> : b \in Batches}
                \cup {<<GoodBatch, d>> : d \in CacheDates}
CacheScrapes == {<<p, InWindowDate>> : p \in Pages}
                \cup {<<[ok |-> TRUE, matches |-> GoodBatch], d>> : d \in CacheDates}

Idle == last = NoCall

\* the caller has its answer; the next call can be made
Return ==
    /\ ~ Idle
    /\ OneThread
    /\ last' = NoCall
    /\ UNCHANGED <<now, selections_files, fixtures_files, memory_cache,
                   cache_timestamps, operation_stats>>

CacheTick == Idle /\ Advance(CacheInstants, TtlMinutes + 2) /\ UNCHANGED last

CacheBbcFixtures(fixtures_data, date, io_ok) ==
    /\ Idle
    /\ \E r \in {cache_bbc_fixtures(DM, fixtures_data, date, now, io_ok)} :
          /\ WithinOps(r.dm)
          /\ SetDM(r.dm)
          /\ last' = [op |-> "cache_bbc_fixtures", data |-> fixtures_data, date |-> date,
                      league |-> "", ret |-> IF r.ret THEN PyTrue ELSE PyFalse]
          /\ UNCHANGED now

SaveCacheData(matches, date, io_ok) ==
    /\ Idle
    /\ \E d \in {save_cache_data(DM, matches, date, now, io_ok)} :
          /\ WithinOps(d)
          /\ SetDM(d)
          /\ last' = [op |-> "_save_cache_data", data |-> matches, date |-> date,
                      league |-> "", ret |-> PyNone]
          /\ UNCHANGED now

ScrapeUnified(target_date, page, io_ok) ==
    /\ Idle
    /\ \E r \in {scrape_unified_bbc_matches(DM, target_date, page, now, io_ok)} :
          /\ WithinOps(r.dm)
          /\ SetDM(r.dm)
          /\ last' = [op |-> "scrape_unified_bbc_matches", data |-> page.matches,
                      date |-> target_date, league |-> "", ret |-> r.ret,
                      page_ok |-> page.ok, fetched |-> r.fetched]
          /\ UNCHANGED now

GetBbcFixtures(date, league) ==
    /\ Idle
    /\ \E r \in {get_bbc_fixtures(DM, date, league, now)} :
          /\ WithinOps(r.dm)
          /\ SetDM(r.dm)
          /\ last' = [op |-> "get_bbc_fixtures", data |-> PyNone, date |-> date,
                      league |-> league, ret |-> r.ret]
          /\ UNCHANGED now

BbcMatchesForDate(date, page_fixtures, page_live, io_ok) ==
    /\ Idle
    /\ \E r \in {get_bbc_matches_for_date(DM, date, page_fixtures, page_live, now, io_ok)} :
          /\ WithinOps(r.dm)
          /\ SetDM(r.dm)
          /\ last' = [op |-> "get_bbc_matches_for_date", data |-> page_fixtures.matches,
                      date |-> date, league |-> "", ret |-> r.ret]
          /\ UNCHANGED now

InitCache == InitAt({Midnight(StartDate)})
NextCache ==
    \/ CacheTick
    \/ Return
    \/ \E p \in CachePuts, io_ok \in BOOLEAN : CacheBbcFixtures(p[1], p[2], io_ok)
    \/ \E p \in CachePuts, io_ok \in BOOLEAN : SaveCacheData(p[1], p[2], io_ok)
    \/ \E p \in CacheScrapes, io_ok \in BOOLEAN : ScrapeUnified(p[2], p[1], io_ok)
    \/ \E d \in CacheDates, l \in CacheLeagues : GetBbcFixtures(d, l)
    \/ \E p \in Pages, io_ok \in BOOLEAN :
          BbcMatchesForDate(InWindowDate, p, FailedPage, io_ok)
SpecCache == InitCache /\ [][NextCache]_vars

-----------------------------------------------------------------------------
(* Claims about the fixture cache, checked under SpecCache *)

\* some string field of some element holds more than 10 '<' and '>'
HasHtmlField(payload) ==
    /\ IsList(payload)
    /\ \E i \in DOMAIN payload.v :
          /\ IsDict(payload.v[i])
          /\ \E key \in DOMAIN payload.v[i].v :
                /\ payload.v[i].v[key].ty = "str"
                /\ HtmlTags(payload.v[i].v[key]) > 10

\* a list whose every element is a mapping with a non-empty string league,
\* home_team, away_team and kickoff
WellFormedPayload(payload) ==
    /\ IsList(payload)
    /\ \A i \in DOMAIN payload.v :
          /\ IsDict(payload.v[i])
          /\ \A f \in {"league", "home_team", "away_team", "kickoff"} :
                /\ f \in DOMAIN payload.v[i].v
                /\ payload.v[i].v[f].ty = "str"
                /\ PyLen(payload.v[i].v[f]) > 0

\* the batch breaks a rule of the Validation Gate
BreaksGateRule(payload) ==
    \/ ~ WellFormedPayload(payload)
    \/ HasHtmlField(payload)
    \/ \E i \in DOMAIN payload.v : \E key \in DOMAIN payload.v[i].v :
          payload.v[i].v[key].ty = "str" /\ PyLen(payload.v[i].v[key]) > 1000

\* the entry get_bbc_fixtures(date, league) finds on disk
HasEntry(date, league) == Exists(fixtures_files, FixturesPath(date, league))
Entry(date, league) == load_json_file(fixtures_files, FixturesPath(date, league))
EntryCachedAt(date, league) == Entry(date, league).v["metadata"].v["cached_at"].v
EntryPayload(date, league) == Entry(date, league).v["fixtures"]
GoneAfter(date, league) ==
    /\ Plain(FixturesPath(date, league)) \notin DOMAIN fixtures_files'
    /\ Gz(FixturesPath(date, league)) \notin DOMAIN fixtures_files'

\* C5: a batch one of whose string fields holds more than 10 '<'/'>' is never
\* persisted by the cache put operation, reached directly or through the
\* scraper, and a get never returns it.
C5_HtmlNeverPersisted ==
    /\ \A p \in DOMAIN fixtures_files : ~ HasHtmlField(fixtures_files[p].v["fixtures"])
    /\ last.op = "get_bbc_fixtures" => ~ HasHtmlField(last.ret)

\* C6: when the batch the scraper is about to cache breaks a rule of the
\* Validation Gate, nothing is written: the cache files, the memory tier and
\* the counters are as before, so an entry already cached for the date is
\* still there and is still returned by a read.
C6_RejectedBatchLeavesCache ==
    [][(/\ last'.op \in {"_save_cache_data", "scrape_unified_bbc_matches"}
        /\ BreaksGateRule(IF last'.op = "scrape_unified_bbc_matches"
                          THEN SupportedMatches(last'.data) ELSE last'.data))
       => /\ fixtures_files' = fixtures_files
          /\ memory_cache' = memory_cache
          /\ cache_timestamps' = cache_timestamps
          /\ operation_stats' = operation_stats
          /\ get_bbc_fixtures(DM, last'.date, "", now).ret
               = get_bbc_fixtures([DM EXCEPT !.fix = fixtures_files'],
                                  last'.date, "", now).ret]_vars

\* a scrape has just met a page with leaked markup while a good batch is
\* cached for the date: the good batch is still what a read returns
C6_Witness ==
    /\ last.op = "scrape_unified_bbc_matches"
    /\ last.data = HtmlBatch
    /\ last.ret = HtmlBatch
    /\ HasEntry(last.date, "")
    /\ EntryPayload(last.date, "") = GoodBatch
    /\ get_bbc_fixtures(DM, last.date, "", now).ret = GoodBatch

PassesReadValidation(payload) ==
    /\ WellFormedPayload(payload)
    /\ \A i \in DOMAIN payload.v : payload.v[i].v["kickoff"] = PyStr("15:00")

\* the date is no more than 14 days after and no more than 7 days before t
InsideDateWindow(date, t) ==
    /\ ~ BadDate(date)
    /\ Midnight(strptime(date)) - t <= 14 * 1440
    /\ t - Midnight(strptime(date)) <= 7 * 1440

C8_ValidOrMiss ==
    [][last'.op = "get_bbc_fixtures"
       => /\ last'.ret = PyNone \/ WellFormedPayload(last'.ret)
          /\ (/\ HasEntry(last'.date, last'.league)
              /\ ~ PassesReadValidation(EntryPayload(last'.date, last'.league)))
             => /\ last'.ret = PyNone
                /\ GoneAfter(last'.date, last'.league)]_vars

\* a read has just met a stored payload that is no list, answered with a
\* miss and removed the file
C8_Witness ==
    /\ last.op = "get_bbc_fixtures"
    /\ last.date = InWindowDate
    /\ last.ret = PyNone
    /\ ~ HasEntry(last.date, "")
    /\ memory_cache_key("bbc_fixtures", last.date) \in DOMAIN memory_cache
    /\ memory_cache[memory_cache_key("bbc_fixtures", last.date)] = NotAList

\* C9: a read for a date more than 14 days after or more than 7 days before
\* the read time is a miss and removes the entry, expired or not; for a date
\* inside the window an unexpired valid entry is returned.
C9_DateWindow ==
    [][(/\ last'.op = "get_bbc_fixtures"
        /\ HasEntry(last'.date, last'.league)
        /\ ~ BadDate(last'.date))
       => LET target == Midnight(strptime(last'.date))
              unexpired == now <= EntryCachedAt(last'.date, last'.league) + 72 * 60
              payload == EntryPayload(last'.date, last'.league)
          IN /\ (target - now > 14 * 1440 \/ now - target > 7 * 1440)
                => /\ last'.ret = PyNone
                   /\ GoneAfter(last'.date, last'.league)
             /\ (/\ target - now <= 14 * 1440
                 /\ now - target <= 7 * 1440
                 /\ unexpired
                 /\ PassesReadValidation(payload))
                => last'.ret = payload]_vars

\* one minute after the write, a read for the date exactly seven days back
\* at the write has missed and removed the unexpired entry
C9_Witness ==
    /\ last.op = "get_bbc_fixtures"
    /\ last.date = strftime(StartDate - 7)
    /\ last.ret = PyNone
    /\ ~ HasEntry(last.date, "")
    /\ memory_cache_key("bbc_fixtures", last.date) \in DOMAIN memory_cache
    /\ memory_cache[memory_cache_key("bbc_fixtures", last.date)] = GoodBatch
    /\ now = cache_timestamps[memory_cache_key("bbc_fixtures", last.date)] + 1

\* C16: a scrape whose fetch returns no page, for a date whose stored
\* fixtures a read would return, returns those fixtures and not an empty
\* result.
C16_FallbackToCache ==
    [][(/\ last'.op = "scrape_unified_bbc_matches"
        /\ ~ last'.page_ok
        /\ get_bbc_fixtures(DM, last'.date, "", now).ret # PyNone)
       => last'.ret = get_bbc_fixtures(DM, last'.date, "", now).ret]_vars

\* no fixtures file is created or changed and the writes counter stands
NothingWritten ==
    /\ \A p \in DOMAIN fixtures_files' :
          p \in DOMAIN fixtures_files /\ fixtures_files'[p] = fixtures_files[p]
    /\ selections_files' = selections_files
    /\ operation_stats'.writes = operation_stats.writes

-----------------------------------------------------------------------------
(* Specification SpecSel: the weekly selections store under saves and loads *)

Selection(home_team, away_team, prediction, confidence) ==
    PyDict([f \in SelectionRequiredFields |->
        CASE f = "home_team" -> home_team
          [] f = "away_team" -> away_team
          [] f = "prediction" -> prediction
          [] f = "confidence" -> confidence])

SelectionA == Selection(PyStr("Arsenal"), PyStr("Chelsea"), PyStr("TBD"), PyInt(5))
SelectionB == Selection(PyStr("Leeds"), PyStr("Hull"), PyStr("HOME"), PyInt(MaxConfidence))
\* a team name as long as the compression threshold: the document is gzipped
SelectionHuge ==
    Selection(Rep("x", CompressionThreshold), PyStr("Hull"), PyStr("DRAW"), PyInt(MinConfidence))

TwoSelections == PyDict([s \in {"Glynny", "Danny"} |->
                            IF s = "Glynny" THEN SelectionA ELSE SelectionB])
HugeSelections == PyDict([s \in {"Glynny"} |-> SelectionHuge])
ValidSelections == {EmptyDict, TwoSelections, HugeSelections}

BadPrediction == PyDict([s \in {"Glynny"} |->
    Selection(PyStr("Arsenal"), PyStr("Chelsea"), PyStr("WIN"), PyInt(5))])
LowConfidence == PyDict([s \in {"Glynny"} |->
    Selection(PyStr("Arsenal"), PyStr("Chelsea"), PyStr("HOME"), PyInt(MinConfidence - 1))])
HighConfidence == PyDict([s \in {"Glynny"} |->
    Selection(PyStr("Arsenal"), PyStr("Chelsea"), PyStr("HOME"), PyInt(MaxConfidence + 1))])
NoConfidence == PyDict([s \in {"Glynny"} |->
    PyDict([f \in {"home_team", "away_team", "prediction"} |-> PyStr("HOME")])])
NotADict == PyList(<<SelectionA>>)
\* an entry that is no mapping; confidences that are no int: a float, False
\* (a bool is an int in Python: False counts as 0, True as 1)
EntryNotADict == PyDict([s \in {"Glynny"} |-> PyStr("Arsenal v Chelsea")])
FloatConfidence == PyDict([s \in {"Glynny"} |->
    Selection(PyStr("Arsenal"), PyStr("Chelsea"), PyStr("HOME"), [ty |-> "float", v |-> 5])])
FalseConfidence == PyDict([s \in {"Glynny"} |->
    Selection(PyStr("Arsenal"), PyStr("Chelsea"), PyStr("HOME"), PyFalse)])
\* one good entry and one bad one
OneBadEntry == PyDict([s \in {"Glynny", "Eamonn Bone"} |->
    IF s = "Glynny" THEN SelectionA
    ELSE Selection(PyStr("Leeds"), PyStr("Hull"), PyStr("home"), PyInt(5))])
InvalidSelections == {BadPrediction, LowConfidence, HighConfidence, NoConfidence, NotADict,
                      EntryNotADict, FloatConfidence, FalseConfidence, OneBadEntry}

\* the run ends once the performance counters add up to MaxSelOps
MaxSelOps == 6
SelInstants == {Midnight(StartDate) + m :
                  m \in {0, MemoryCacheTtlMinutes - 1, MemoryCacheTtlMinutes}}
SelDates == {strftime(StartDate), strftime(StartDate + 7)}
\* every map for the first week, one map for the other
SelSaves == {<<m, strftime(StartDate)>> : m \in ValidSelections \cup InvalidSelections}
              \cup {<<TwoSelections, strftime(StartDate + 7)>>}

SelTick == Advance(SelInstants, MinutesPerDay) /\ UNCHANGED last

SaveWeeklySelections(selections_data, date, io_ok) ==
    \E r \in {save_weekly_selections(DM, selections_data, date, now, io_ok)} :
       /\ StatsTotal(r.dm.stats) <= MaxSelOps
       /\ SetDM(r.dm)
       /\ last' = [op |-> "save_weekly_selections", data |-> selections_data,
                   date |-> date, ret |-> IF r.ret THEN PyTrue ELSE PyFalse]
       /\ UNCHANGED now

LoadWeeklySelections(date) ==
    \E r \in {load_weekly_selections(DM, date, now)} :
       /\ StatsTotal(r.dm.stats) <= MaxSelOps
       /\ SetDM(r.dm)
       /\ last' = [op |-> "load_weekly_selections", data |-> PyNone,
                   date |-> date, ret |-> r.ret]
       /\ UNCHANGED now

\* clear_memory_cache()
clear_memory_cache(dm) ==
    [dm EXCEPT !.mem = [k \in {} |-> PyNone], !.ts = [k \in {} |-> 0]]

ClearMemoryCache ==
    /\ memory_cache # << >>
    /\ SetDM(clear_memory_cache(DM))
    /\ last' = [op |-> "clear_memory_cache", data |-> PyNone,
                date |-> strftime(StartDate), ret |-> PyNone]
    /\ UNCHANGED now

InitSel == InitAt({Midnight(StartDate)})
NextSel ==
    \/ SelTick
    \/ \E p \in SelSaves, io_ok \in BOOLEAN : SaveWeeklySelections(p[1], p[2], io_ok)
    \/ \E d \in SelDates : LoadWeeklySelections(d)
    \/ ClearMemoryCache
SpecSel == InitSel /\ [][NextSel]_vars

\* C10: a selections map that passes validation and is saved for a week is
\* what the next load for that week returns, whether the document was written
\* plain or gzip-compressed and whether the load is answered from memory or
\* from disk.
C10_SaveLoadRoundTrip ==
    [][(/\ last.op = "save_weekly_selections"
        /\ last.ret = PyTrue
        /\ last'.op = "load_weekly_selections"
        /\ last'.date = last.date)
       => last'.ret = last.data]_vars

\* the rules of the write-time validation, entry by entry
BreaksSelectionRule(entry) ==
    \/ entry.ty # "dict"
    \/ \E f \in {"home_team", "away_team", "prediction", "confidence"} : f \notin DOMAIN entry.v
    \/ entry.v["prediction"] \notin {PyStr(p) : p \in {"HOME", "AWAY", "DRAW",
                                                      "BTTS_YES", "BTTS_NO", "TBD"}}
    \/ ~ (entry.v["confidence"].ty \in {"int", "bool"} /\ entry.v["confidence"].v \in 1..10)

HasBadEntry(selections_data) ==
    /\ selections_data.ty = "dict"
    /\ \E s \in DOMAIN selections_data.v : BreaksSelectionRule(selections_data.v[s])

\* C11: save_weekly_selections of a map with an entry that is no mapping,
\* lacks home_team, away_team, prediction or confidence, has a prediction
\* outside the six allowed values or a confidence that is no integer in 1..10
\* returns False and leaves the files, the memory tier and the counters as
\* they were.
C11_InvalidSaveRejected ==
    [][(/\ last' # last
        /\ last'.op = "save_weekly_selections"
        /\ HasBadEntry(last'.data))
       => /\ last'.ret = PyFalse
          /\ UNCHANGED <<selections_files, memory_cache, cache_timestamps,
                         operation_stats>>]_vars

\* a map with one good and one bad entry is refused while the week has a file
\* and a fresh memory entry from an earlier save
C11_Witness ==
    /\ last.op = "save_weekly_selections"
    /\ last.data = OneBadEntry
    /\ last.ret = PyFalse
    /\ SelectionsPath(last.date) \in DOMAIN selections_files
    /\ memory_cache_key("selections", last.date) \in DOMAIN memory_cache
    /\ memory_cache[memory_cache_key("selections", last.date)] = TwoSelections

-----------------------------------------------------------------------------
(* Specification SpecLocks: request threads inside the DataManager.  A step *)
(* is what one thread does between two points where the interpreter can    *)
(* switch threads: a dictionary test, a dictionary store, a lock           *)
(* acquisition, the file operation, the two halves of "counter += 1".      *)

\* calls each thread makes
MaxCalls == 2
LockPaths == {FixturesPath(strftime(StartDate), ""),
              FixturesPath(strftime(StartDate + 1), "")}
FileCalls == {"_save_json_file", "_load_json_file", "_cleanup_expired_cache"}
GeneralCalls == {"cleanup_locks", "_get_memory_cache"}

Goto(t, at) == pc' = [pc EXCEPT ![t].at = at]
FilesUnchanged ==
    UNCHANGED <<now, selections_files, fixtures_files, memory_cache, cache_timestamps,
                last, rate_vars>>

\* a request thread enters one of the DataManager's methods
Call(t, op, filepath) ==
    /\ pc[t].at = "idle"
    /\ pc[t].calls < MaxCalls
    /\ pc' = [pc EXCEPT ![t] = [IdleThread EXCEPT
                 !.at = IF op \in FileCalls THEN "check" ELSE "general_acquire",
                 !.op = op, !.filepath = filepath, !.calls = pc[t].calls + 1]]
    /\ UNCHANGED <<file_locks, locks, completed, operation_stats>>
    /\ FilesUnchanged

\* _get_file_lock: if filepath not in self._file_locks
GetFileLockTest(t) ==
    /\ pc[t].at = "check"
    /\ Goto(t, IF pc[t].filepath \in DOMAIN file_locks THEN "fetch" ELSE "create")
    /\ UNCHANGED <<file_locks, locks, completed, operation_stats>>
    /\ FilesUnchanged

\* _get_file_lock: self._file_locks[filepath] = threading.RLock()
GetFileLockCreate(t) ==
    /\ pc[t].at = "create"
    /\ \E fresh \in {Cardinality(DOMAIN locks)} :
          /\ locks' = With(locks, fresh, 0)
          /\ file_locks' = With(file_locks, pc[t].filepath, fresh)
    /\ Goto(t, "fetch")
    /\ UNCHANGED <<completed, operation_stats>>
    /\ FilesUnchanged

\* _get_file_lock: return self._file_locks[filepath]; a KeyError ends the call
\* (caught by _save_json_file and _load_json_file, raised to the caller by
\* _cleanup_expired_cache)
GetFileLockReturn(t) ==
    /\ pc[t].at = "fetch"
    /\ IF pc[t].filepath \in DOMAIN file_locks
       THEN pc' = [pc EXCEPT ![t].at = "acquire", ![t].lock = file_locks[pc[t].filepath]]
       ELSE Goto(t, "idle")
    /\ UNCHANGED <<file_locks, locks, completed, operation_stats>>
    /\ FilesUnchanged

\* with <lock>: the RLock is free or already owned by this thread
Acquire(t) ==
    /\ pc[t].at = "acquire"
    /\ locks[pc[t].lock] \in {0, t}
    /\ locks' = [locks EXCEPT ![pc[t].lock] = t]
    /\ Goto(t, "inside")
    /\ UNCHANGED <<file_locks, completed, operation_stats>>
    /\ FilesUnchanged

\* the body of the with block: the write, the read or the removal; tmp is 1
\* when it succeeded (io_ok: open() and write() succeed; a read of a missing
\* file raises)
FileOperation(t, data, io_ok) ==
    /\ pc[t].at = "inside"
    /\ CASE pc[t].op = "_save_json_file" ->
              \E saved \in {save_json_file(fixtures_files, pc[t].filepath,
                                            FixturesDocument(data, pc[t].filepath.date, now),
                                            FALSE, io_ok)} :
                  /\ fixtures_files' = saved.files
                  /\ pc' = [pc EXCEPT ![t].at = "release",
                                      ![t].tmp = IF saved.ok THEN 1 ELSE 0]
         [] pc[t].op = "_load_json_file" ->
              /\ fixtures_files' = fixtures_files
              /\ pc' = [pc EXCEPT ![t].at = "release",
                                  ![t].tmp = IF Exists(fixtures_files, pc[t].filepath)
                                             THEN 1 ELSE 0]
         [] pc[t].op = "_cleanup_expired_cache" ->
              /\ fixtures_files' = cleanup_expired_cache(fixtures_files, pc[t].filepath)
              /\ pc' = [pc EXCEPT ![t].at = "release", ![t].tmp = 0]
    /\ UNCHANGED <<file_locks, locks, completed, operation_stats>>
    /\ UNCHANGED <<now, selections_files, memory_cache, cache_timestamps, last, rate_vars>>

\* a with block whose end leaves the lock with the thread
ReleaseKeepsLock(t) ==
    /\ pc[t].at = "release"
    /\ Goto(t, IF pc[t].tmp = 1 THEN "stats_read" ELSE "idle")
    /\ UNCHANGED <<file_locks, locks, completed, operation_stats>>
    /\ FilesUnchanged

\* the end of the with block
Release(t) ==
    /\ pc[t].at = "release"
    /\ locks' = [locks EXCEPT ![pc[t].lock] = 0]
    /\ Goto(t, IF pc[t].tmp = 1 THEN "stats_read" ELSE "idle")
    /\ UNCHANGED <<file_locks, completed, operation_stats>>
    /\ FilesUnchanged

Counter(op) == IF op = "_save_json_file" THEN "writes"
               ELSE IF op = "_load_json_file" THEN "reads" ELSE "cache_misses"

\* self._operation_stats[counter] += 1: the read of the counter
StatsRead(t) ==
    /\ pc[t].at = "stats_read"
    /\ pc' = [pc EXCEPT ![t].at = "stats_write",
                        ![t].tmp = operation_stats[Counter(pc[t].op)]]
    /\ UNCHANGED <<file_locks, locks, completed, operation_stats>>
    /\ FilesUnchanged

\* ... and the store of the sum; the call returns.  _get_memory_cache does
\* both halves inside with self._lock and leaves the block here
StatsWrite(t) ==
    /\ pc[t].at = "stats_write"
    /\ operation_stats' = [operation_stats EXCEPT ![Counter(pc[t].op)] = pc[t].tmp + 1]
    /\ completed' = [completed EXCEPT ![Counter(pc[t].op)] = @ + 1]
    /\ locks' = IF pc[t].op = "_get_memory_cache"
                THEN [locks EXCEPT ![GeneralLock] = 0] ELSE locks
    /\ Goto(t, "idle")
    /\ UNCHANGED file_locks
    /\ FilesUnchanged

\* with self._lock, in cleanup_locks and _get_memory_cache (a key that is not
\* in the memory tier: a miss)
GeneralAcquire(t) ==
    /\ pc[t].at = "general_acquire"
    /\ locks[GeneralLock] \in {0, t}
    /\ locks' = [locks EXCEPT ![GeneralLock] = t]
    /\ Goto(t, IF pc[t].op = "cleanup_locks" THEN "scan" ELSE "stats_read")
    /\ UNCHANGED <<file_locks, completed, operation_stats>>
    /\ FilesUnchanged

\* cleanup_locks: for filepath in self._file_locks, the iterator is made over
\* the locks there are; with none the loop body never runs
CleanupLocksScan(t) ==
    /\ pc[t].at = "scan"
    /\ pc' = [pc EXCEPT ![t].at = IF DOMAIN file_locks = {} THEN "delete" ELSE "scanning",
                        ![t].seen = DOMAIN file_locks]
    /\ UNCHANGED <<file_locks, locks, completed, operation_stats>>
    /\ FilesUnchanged

\* cleanup_locks: the loop over the locks, os.path.exists for each.  The
\* iterator raises RuntimeError (dictionary changed size during iteration)
\* when _get_file_lock, which does not take self._lock, has stored a lock
\* since the loop began; nothing in cleanup_locks catches it, the with block
\* releases self._lock and the call ends with the exception
CleanupLocksIterate(t) ==
    /\ pc[t].at = "scanning"
    /\ IF DOMAIN file_locks # pc[t].seen
       THEN /\ pc' = [pc EXCEPT ![t].at = "idle", ![t].raised = TRUE]
            /\ locks' = [locks EXCEPT ![GeneralLock] = 0]
       ELSE /\ pc' = [pc EXCEPT ![t].at = "delete",
                                ![t].files_to_remove =
                                    {f \in DOMAIN file_locks : ~ Exists(fixtures_files, f)}]
            /\ locks' = locks
    /\ UNCHANGED <<file_locks, completed, operation_stats>>
    /\ FilesUnchanged

\* cleanup_locks: del self._file_locks[filepath] for each, end of the block
CleanupLocksDelete(t) ==
    /\ pc[t].at = "delete"
    /\ file_locks' = [f \in DOMAIN file_locks \ pc[t].files_to_remove |-> file_locks[f]]
    /\ locks' = [locks EXCEPT ![GeneralLock] = 0]
    /\ Goto(t, "idle")
    /\ UNCHANGED <<completed, operation_stats>>
    /\ FilesUnchanged

InitLocks == InitAt({Midnight(StartDate)})
NextLocks ==
    \E t \in Threads :
        \/ \E op \in FileCalls \cup GeneralCalls, f \in LockPaths : Call(t, op, f)
        \/ GetFileLockTest(t)
        \/ GetFileLockCreate(t)
        \/ GetFileLockReturn(t)
        \/ Acquire(t)
        \/ \E data \in {GoodBatch, OtherBatch}, io_ok \in BOOLEAN : FileOperation(t, data, io_ok)
        \/ Release(t)
        \/ StatsRead(t)
        \/ StatsWrite(t)
        \/ GeneralAcquire(t)
        \/ CleanupLocksScan(t)
        \/ CleanupLocksIterate(t)
        \/ CleanupLocksDelete(t)
SpecLocks == InitLocks /\ [][NextLocks]_vars

\* the thread is inside the with block of a file lock
InSection(t) == pc[t].at \in {"inside", "release"}

\* C14: for every file path at most one thread at a time is inside the locked
\* section of a write, read or removal of that path.
C14_OneThreadPerKey ==
    \A t1, t2 \in Threads :
        (t1 # t2 /\ InSection(t1) /\ InSection(t2)) => pc[t1].filepath # pc[t2].filepath

\* C15: a performance counter is only updated by a thread that holds
\* self._lock, and no update is lost: the counters equal the numbers of
\* completed successful writes, reads and memory misses.
C15_CountersUnderLock ==
    [][operation_stats' # operation_stats
       => \A t \in Threads : pc'[t] # pc[t] => locks[GeneralLock] = t]_vars

\* C15, second half: the counters equal the numbers of completed successful
\* writes, reads and memory misses
C15_NoLostUpdate ==
    /\ operation_stats.writes = completed.writes
    /\ operation_stats.reads = completed.reads
    /\ operation_stats.cache_misses = completed.cache_misses

-----------------------------------------------------------------------------
(* Specification SpecRate: scraper objects and the requests they send *)

\* BBCSportScraper(rate_limit: float = 1.0); BBCSportScraper(rate_limit=2.0)
\* in find_next_available_fixtures_date
DefaultRateLimit == 1
ProbeRateLimit == 2
\* scraper objects constructed, seconds the clock runs
MaxScrapers == 2
MaxElapsed == 6

RateQuiet ==
    UNCHANGED <<now, selections_files, fixtures_files, memory_cache, cache_timestamps,
                operation_stats, last, thread_vars>>

\* BBCSportScraper.__init__(rate_limit)
NewScraper(rate_limit) ==
    /\ Len(scrapers) < MaxScrapers
    /\ scrapers' = Append(scrapers, [rate_limit |-> rate_limit, last_request_time |-> 0])
    /\ UNCHANGED <<clock, sent>>
    /\ RateQuiet

\* _enforce_rate_limit(): the seconds to sleep before the request
sleep_time(scraper, current_time) ==
    IF current_time - scraper.last_request_time < scraper.rate_limit
    THEN scraper.rate_limit - (current_time - scraper.last_request_time)
    ELSE 0

\* _make_request(url) of scraper object i: _enforce_rate_limit(), then
\* session.get(); the sleep lasts the deficit or a second longer
MakeRequest(i) ==
    /\ i \in DOMAIN scrapers
    /\ \E overslept \in {0, 1} :
          /\ overslept = 1 => sleep_time(scrapers[i], clock) > 0
          /\ clock' = clock + sleep_time(scrapers[i], clock) + overslept
    /\ clock' <= ProcessStart + MaxElapsed
    /\ scrapers' = [scrapers EXCEPT ![i].last_request_time = clock']
    /\ sent' = [count |-> sent.count + 1, at |-> clock']
    /\ RateQuiet

\* a second passes
Elapse ==
    /\ clock < ProcessStart + MaxElapsed
    /\ clock' = clock + 1
    /\ UNCHANGED <<scrapers, sent>>
    /\ RateQuiet

InitRate == InitAt({Midnight(StartDate)})
NextRate ==
    \/ \E r \in {DefaultRateLimit, ProbeRateLimit} : NewScraper(r)
    \/ \E i \in 1..MaxScrapers : MakeRequest(i)
    \/ Elapse
SpecRate == InitRate /\ [][NextRate]_vars

\* C18: any two consecutive upstream requests of the process are at least the
\* minimum interval (the default 1 s, the smallest configured) apart.
C18_MinInterval ==
    [][(sent'.count > sent.count /\ sent.count > 0)
       => sent'.at - sent.at >= DefaultRateLimit]_vars

-----------------------------------------------------------------------------
(* app.py: the selection panel and the assignment endpoints *)

\* a panel that has a ninth member
SELECTORS_open == {"Glynny", "Eamonn Bone", "Mickey D", "Rob Carney",
                   "Steve H", "Danny", "Eddie Lee", "Fran Radar", "Nobody"}

SELECTORS == {"Glynny", "Eamonn Bone", "Mickey D", "Rob Carney",
              "Steve H", "Danny", "Eddie Lee", "Fran Radar"}

\* _get_next_saturday with the days to Saturday left unreduced: a Sunday is
\* sent to the day before it
get_next_saturday_no_modulo(t) ==
    LET today == DateOf(t)
    IN strftime(IF Weekday(today) = 5 THEN today ELSE today + (5 - Weekday(today)))

\* bbc_scraper.py _get_next_saturday()[1]
get_next_saturday(t) ==
    LET today == DateOf(t)
        days_until_saturday == (5 - Weekday(today)) % 7
    IN strftime(IF Weekday(today) = 5 THEN today ELSE today + days_until_saturday)

\* scrape_saturday_3pm_fixtures()["matches_3pm"]
scrape_saturday_3pm_fixtures(dm, page, t, io_ok) ==
    TheOne({
        [dm |-> unified_result.dm,
         ret |-> PyList(SelectSeq(unified_result.ret.v,
                     LAMBDA match : /\ "kickoff" \in DOMAIN match.v
                                    /\ match.v["kickoff"] = PyStr("15:00")))] :
        unified_result \in
            {scrape_unified_bbc_matches(dm, get_next_saturday(t), page, t, io_ok)}})

\* load_selections() returning no entries whatever is stored
load_selections_fresh(dm, t) ==
    [dm |-> dm, ret |-> EmptyDict]

\* load_selections()["selectors"]: the stored map of the current week, each
\* entry copied and given an assigned_at if it has none
load_selections(dm, t) ==
    TheOne({
        IF loaded.ret = PyNone THEN [dm |-> loaded.dm, ret |-> EmptyDict]
        ELSE [dm |-> loaded.dm,
              ret |-> PyDict([selector \in DOMAIN loaded.ret.v |->
                         IF "assigned_at" \in DOMAIN loaded.ret.v[selector].v
                         THEN loaded.ret.v[selector]
                         ELSE PyDict(With(loaded.ret.v[selector].v, "assigned_at",
                                          PyIso(t)))])] :
        loaded \in {load_weekly_selections(dm, get_current_prediction_week(t), t)}})

\* save_selections({"selectors": selectors, ...})
save_selections(dm, selectors, t, io_ok) ==
    save_weekly_selections(dm, selectors, get_current_prediction_week(t), t, io_ok)

\* f"{match['league']}_{match['home_team']}_{match['away_team']}"
current_id(match) ==
    Cat(match.v["league"], Cat(PyStr("_"), Cat(match.v["home_team"],
                               Cat(PyStr("_"), match.v["away_team"]))))

\* the first match of the list with this id, None when there is none
find_match(matches, match_id) ==
    LET found == SelectSeq(matches, LAMBDA match : current_id(match) = match_id)
    IN IF found = <<>> THEN PyNone ELSE Head(found)

new_assignment(match_details) ==
    Selection(match_details.v["home_team"], match_details.v["away_team"],
              PyStr("TBD"), PyInt(5))

Response(status, error) == [status |-> status, error |-> error]

\* assign_match from "if not match_details" on: 404, or the new entry is put
\* into the map and the map is saved
assign_store(dm, selectors, selector, match_details, t, io_ok) ==
    IF match_details = PyNone
    THEN [dm |-> dm, ret |-> Response(404, "Match not found")]
    ELSE TheOne({
        IF saved.ret
        THEN [dm |-> saved.dm, ret |-> Response(200, "")]
        ELSE [dm |-> saved.dm, ret |-> Response(500, "Failed to save selections")] :
        saved \in {save_selections(dm,
                       PyDict(With(selectors, selector, new_assignment(match_details))),
                       t, io_ok)}})

\* assign_match, "Find the match details": the cached fixtures of the week
\* first, the scraper if they do not have the match
assign_lookup(dm, selectors, match_id, selector, page, t, io_ok) ==
    TheOne({
        IF Truthy(cached_fixtures.ret)
           /\ find_match(cached_fixtures.ret.v, match_id) # PyNone
        THEN assign_store(cached_fixtures.dm, selectors, selector,
                          find_match(cached_fixtures.ret.v, match_id), t, io_ok)
        ELSE TheOne({
            assign_store(scraper_result.dm, selectors, selector,
                         find_match(scraper_result.ret.v, match_id), t, io_ok) :
            scraper_result \in
                {scrape_saturday_3pm_fixtures(cached_fixtures.dm, page, t, io_ok)}}) :
        cached_fixtures \in {get_bbc_fixtures(dm, get_current_prediction_week(t), "", t)}})

\* POST /api/assign with {"match_id": match_id, "selector": selector}; page is
\* what the BBC site answers if the handler has to scrape
assign_match(dm, match_id, selector, page, t, io_ok) ==
    IF ~ Truthy(match_id) \/ selector = ""
    THEN [dm |-> dm, ret |-> Response(400, "Missing required parameters")]
    ELSE IF selector \notin SELECTORS
    THEN [dm |-> dm, ret |-> Response(400, "Invalid selector")]
    ELSE TheOne({
        IF \E sel \in DOMAIN loaded.ret.v \ {selector} :
              /\ "id" \in DOMAIN loaded.ret.v[sel].v
              /\ loaded.ret.v[sel].v["id"] = match_id
        THEN [dm |-> loaded.dm,
              ret |-> Response(400, "Match already assigned to another selector")]
        ELSE assign_lookup(loaded.dm, Without(loaded.ret.v, selector),
                           match_id, selector, page, t, io_ok) :
        loaded \in {load_selections(dm, t)}})

\* an unassign that saves the map even when the selector holds nothing
unassign_match_always_saves(dm, selector, t, io_ok) ==
    IF selector = "" THEN [dm |-> dm, ret |-> Response(400, "Missing selector")]
    ELSE TheOne({
        TheOne({
            IF saved.ret /\ selector \in DOMAIN loaded.ret.v
            THEN [dm |-> saved.dm, ret |-> Response(200, "")]
            ELSE [dm |-> saved.dm, ret |-> Response(404, "has no assigned match")] :
            saved \in {save_selections(loaded.dm, PyDict(Without(loaded.ret.v, selector)),
                                       t, io_ok)}}) :
        loaded \in {load_selections(dm, t)}})

\* POST /api/unassign with {"selector": selector}
unassign_match(dm, selector, t, io_ok) ==
    IF selector = "" THEN [dm |-> dm, ret |-> Response(400, "Missing selector")]
    ELSE TheOne({
        IF selector \notin DOMAIN loaded.ret.v
        THEN [dm |-> loaded.dm, ret |-> Response(404, "has no assigned match")]
        ELSE TheOne({
            IF saved.ret
            THEN [dm |-> saved.dm, ret |-> Response(200, "")]
            ELSE [dm |-> saved.dm, ret |-> Response(500, "Failed to save selections")] :
            saved \in {save_selections(loaded.dm, PyDict(Without(loaded.ret.v, selector)),
                                       t, io_ok)}}) :
        loaded \in {load_selections(dm, t)}})

-----------------------------------------------------------------------------
(* Specification Spec: the panel assigning and unassigning matches *)

\* the run ends once the performance counters add up to MaxWebOps
MaxWebOps == 11
WebInstants == {Midnight(StartDate) + m : m \in {0, MemoryCacheTtlMinutes + 1}}
RequestSelectors == {"Glynny", "Eamonn Bone", "Nobody", ""}
RequestMatchIds == {current_id(MatchA), current_id(MatchB), PyStr("Premier League_A_B"),
                    EmptyStr}
\* the 15:00 fixtures of the week
WeekBatch == PyList(<<MatchA, MatchB, MatchC>>)
\* the BBC page and the disk, as one request finds them
WebWorlds == {<<FailedPage, TRUE>>, <<[ok |-> TRUE, matches |-> WeekBatch], TRUE>>,
              <<[ok |-> TRUE, matches |-> WeekBatch], FALSE>>}

WebTick == Idle /\ Advance(WebInstants, MinutesPerDay) /\ UNCHANGED last

\* the entry the selector has as the request arrives, None if it has none
held_by(dm, selector, t) ==
    LET selectors == load_selections(dm, t).ret.v
    IN IF selector \in DOMAIN selectors THEN selectors[selector] ELSE PyNone

Assign(match_id, selector, page, io_ok) ==
    /\ Idle
    /\ \E r \in {assign_match(DM, match_id, selector, page, now, io_ok)} :
          /\ StatsTotal(r.dm.stats) <= MaxWebOps
          /\ SetDM(r.dm)
          /\ last' = [op |-> "assign_match", match_id |-> match_id, selector |-> selector,
                      held |-> held_by(DM, selector, now), ret |-> r.ret]
          /\ UNCHANGED now

Unassign(selector, io_ok) ==
    /\ Idle
    /\ \E r \in {unassign_match(DM, selector, now, io_ok)} :
          /\ StatsTotal(r.dm.stats) <= MaxWebOps
          /\ SetDM(r.dm)
          /\ last' = [op |-> "unassign_match", match_id |-> EmptyStr, selector |-> selector,
                      held |-> held_by(DM, selector, now), ret |-> r.ret]
          /\ UNCHANGED now

\* what an earlier run of the server, an hour before, has left in the data
\* directory: the fixtures of the week and one assignment
EarlierRun == Midnight(StartDate) - MinutesPerHour

\* DataManager(): the files of earlier runs, no memory tier, counters at zero
Init ==
    /\ Constructed
    /\ now = Midnight(StartDate)
    /\ fixtures_files \in {[p \in {} |-> PyNone],
                           [p \in {FixturesPath(strftime(StartDate), "")} |->
                               FixturesDocument(WeekBatch, strftime(StartDate), EarlierRun)]}
    /\ selections_files \in {[p \in {} |-> PyNone],
                             [p \in {SelectionsPath(strftime(StartDate))} |->
                                 SelectionsDocument(
                                     PyDict([s \in {"Eamonn Bone"} |-> new_assignment(MatchC)]),
                                     strftime(StartDate), EarlierRun)]}
    /\ memory_cache = [k \in {} |-> PyNone]
    /\ cache_timestamps = [k \in {} |-> 0]
    /\ operation_stats = [reads |-> 0, writes |-> 0, cache_hits |-> 0, cache_misses |-> 0]
    /\ last = NoCall
Next ==
    \/ WebTick
    \/ Return
    \/ \E m \in RequestMatchIds, s \in RequestSelectors, w \in WebWorlds :
          Assign(m, s, w[1], w[2])
    \/ \E s \in RequestSelectors, io_ok \in BOOLEAN : Unassign(s, io_ok)
Spec == Init /\ [][Next]_vars

-----------------------------------------------------------------------------
(* Claims about the assignment endpoints, checked under Spec *)

\* the selections map stored on disk for the week of instant t
StoredSelections(files, t) ==
    LET path == SelectionsPath(get_current_prediction_week(t))
    IN IF Exists(files, path) THEN DocumentSelections(load_json_file(files, path)).v
       ELSE [s \in {} |-> PyNone]

\* C1: within a week no two selectors hold the same match.
C1_OneSelectorPerMatch ==
    \A p \in DOMAIN selections_files :
        LET stored == selections_files[p].v["selections"].v
        IN \A a, b \in DOMAIN stored :
              a # b => \/ stored[a].v["home_team"] # stored[b].v["home_team"]
                       \/ stored[a].v["away_team"] # stored[b].v["away_team"]

\* C2: after a successful assignment of match m2 to selector A the stored map
\* has the entries it had plus one for A, A's entry describes m2 and nothing
\* else, and every other selector's entry has its home_team, away_team,
\* prediction and confidence as before.
C2_ReassignReplaces ==
    [][(last'.op = "assign_match" /\ last'.ret.status = 200)
       => LET before == StoredSelections(selections_files, now)
              after == StoredSelections(selections_files', now)
              A == last'.selector
          IN /\ DOMAIN after = DOMAIN before \cup {A}
             /\ \E m2 \in {MatchA, MatchB, MatchC} :
                   /\ current_id(m2) = last'.match_id
                   /\ after[A].v["home_team"] = m2.v["home_team"]
                   /\ after[A].v["away_team"] = m2.v["away_team"]
             /\ \A other \in DOMAIN before \ {A} :
                   \A f \in {"home_team", "away_team", "prediction", "confidence"} :
                       after[other].v[f] = before[other].v[f]]_vars

\* Glynny held Arsenal v Chelsea and has just been given Leeds v Hull, while
\* Eamonn Bone still holds Celtic v Hearts
C2_Witness ==
    /\ last.op = "assign_match"
    /\ last.ret.status = 200
    /\ last.selector = "Glynny"
    /\ last.held # PyNone
    /\ last.held.v["home_team"] = PyStr("Arsenal")
    /\ last.match_id = current_id(MatchB)
    /\ LET stored == StoredSelections(selections_files, now)
       IN /\ DOMAIN stored = {"Glynny", "Eamonn Bone"}
          /\ stored["Glynny"].v["home_team"] = PyStr("Leeds")
          /\ stored["Glynny"].v["away_team"] = PyStr("Hull")
          /\ stored["Eamonn Bone"].v["home_team"] = PyStr("Celtic")

\* the eight members of the panel
PanelNames == {"Glynny", "Eamonn Bone", "Mickey D", "Rob Carney",
               "Steve H", "Danny", "Eddie Lee", "Fran Radar"}

DataManagerUntouched ==
    UNCHANGED <<selections_files, fixtures_files, memory_cache, cache_timestamps,
                operation_stats>>

\* C12 as stated: an assign whose selector is not one of the eight panel
\* names is answered 'Invalid selector' and nothing is loaded or saved.
C12_InvalidSelectorAsClaimed ==
    [][(last'.op = "assign_match" /\ last'.selector \notin PanelNames)
       => /\ last'.ret.error = "Invalid selector"
          /\ DataManagerUntouched]_vars

\* C12: an assign whose selector is not one of the eight panel names is
\* answered 400 with nothing loaded or saved and the stored map unchanged; the
\* error is 'Invalid selector' when the request has a match id and a
\* selector, 'Missing required parameters' when either is empty.
C12_InvalidSelector ==
    [][(last'.op = "assign_match" /\ last'.selector \notin PanelNames)
       => /\ last'.ret.status = 400
          /\ last'.ret.error = IF last'.match_id # EmptyStr /\ last'.selector # ""
                               THEN "Invalid selector"
                               ELSE "Missing required parameters"
          /\ DataManagerUntouched]_vars

\* 'Nobody' asks for Arsenal v Chelsea while the week has a stored map
C12_Witness ==
    /\ last.op = "assign_match"
    /\ last.selector = "Nobody"
    /\ last.match_id = current_id(MatchA)
    /\ last.ret = Response(400, "Invalid selector")
    /\ DOMAIN StoredSelections(selections_files, now) # {}

\* C13: an unassign for a selector without an assignment in the current week
\* fails and saves nothing; an unassign that succeeds removes that selector's
\* entry and keeps every other selector's entry; a selector with an
\* assignment is refused only when the save fails, and then nothing changes
\* on disk.
C13_Unassign ==
    [][last'.op = "unassign_match"
       => LET before == StoredSelections(selections_files, now)
              after == StoredSelections(selections_files', now)
              A == last'.selector
          IN IF A \notin DOMAIN before
             THEN /\ last'.ret.status \in {400, 404}
                  /\ selections_files' = selections_files
                  /\ operation_stats'.writes = operation_stats.writes
             ELSE /\ last'.ret.status \in {200, 500}
                  /\ last'.ret.status = 500 => selections_files' = selections_files
                  /\ last'.ret.status = 200 =>
                        /\ DOMAIN after = DOMAIN before \ {A}
                        /\ \A other \in DOMAIN after :
                              \A f \in {"home_team", "away_team", "prediction",
                                        "confidence"} :
                                  after[other].v[f] = before[other].v[f]]_vars

\* Glynny has been unassigned and Eamonn Bone still holds Celtic v Hearts
C13_Witness ==
    /\ last.op = "unassign_match"
    /\ last.selector = "Glynny"
    /\ last.held # PyNone
    /\ last.ret.status = 200
    /\ LET stored == StoredSelections(selections_files, now)
       IN /\ DOMAIN stored = {"Eamonn Bone"}
          /\ stored["Eamonn Bone"].v["home_team"] = PyStr("Celtic")

\* an unassign for a panel member who holds nothing is answered 404
C13_WitnessRefused ==
    /\ last.op = "unassign_match"
    /\ last.selector = "Glynny"
    /\ last.held = PyNone
    /\ last.ret.status = 404
    /\ DOMAIN StoredSelections(selections_files, now) = {"Eamonn Bone"}

-----------------------------------------------------------------------------
(* app.py find_next_available_fixtures_date, and Specification SpecProbe *)

\* max_days_ahead=14; timedelta(days=7)
DefaultMaxDaysAhead == 14
ProbeDaysPast == 7

\* [match for match in result['matches'] if match.get('kickoff') == '15:00']
matches_3pm(matches) ==
    SelectSeq(matches.v, LAMBDA match : "kickoff" \in DOMAIN match.v
                                        /\ match.v["kickoff"] = ThreePm)

\* the loop of find_next_available_fixtures_date from days_ahead on, after
\* probes scrapes; world gives the page the BBC site answers with for each
\* date.  probe_result is the rest of the loop body once the scrape of the
\* day has returned result
RECURSIVE probe_dates(_, _, _, _, _, _, _, _)
RECURSIVE probe_result(_, _, _, _, _, _, _, _)
probe_result(result, current_date, days_ahead, max_days_ahead, world, t, io_ok, probes) ==
    IF Truthy(result.ret) /\ matches_3pm(result.ret) # <<>>
    THEN [dm |-> result.dm, ret |-> PyDate(strftime(current_date + days_ahead)),
          probes |-> probes]
    ELSE probe_dates(result.dm, current_date, days_ahead + 1, max_days_ahead, world, t,
                     io_ok, probes)

probe_dates(dm, current_date, days_ahead, max_days_ahead, world, t, io_ok, probes) ==
    IF days_ahead > max_days_ahead THEN [dm |-> dm, ret |-> PyNone, probes |-> probes]
    ELSE IF current_date + days_ahead < DateOf(t) - ProbeDaysPast
    THEN probe_dates(dm, current_date, days_ahead + 1, max_days_ahead, world, t, io_ok,
                     probes)
    ELSE \* the scrape is made once: TheOne binds its answer
         probe_result(TheOne({scrape_unified_bbc_matches(dm,
                                  strftime(current_date + days_ahead),
                                  world[current_date + days_ahead], t, io_ok)}),
                      current_date, days_ahead, max_days_ahead, world, t, io_ok,
                      probes + 1)

\* a probe loop that stops one day short: range(max_days_ahead)
find_next_available_fixtures_date_short(dm, target_date, max_days_ahead, world, t, io_ok) ==
    probe_dates(dm, IF BadDate(target_date) THEN DateOf(t) ELSE strptime(target_date),
                0, max_days_ahead - 1, world, t, io_ok, 0)

\* find_next_available_fixtures_date(target_date, max_days_ahead)
find_next_available_fixtures_date(dm, target_date, max_days_ahead, world, t, io_ok) ==
    probe_dates(dm, IF BadDate(target_date) THEN DateOf(t) ELSE strptime(target_date),
                0, max_days_ahead, world, t, io_ok, 0)

\* the days the probes can reach
ProbeRange == (StartDate - ProbeDaysPast - 2)..(StartDate + DefaultMaxDaysAhead + 2)
ProbeHits == {StartDate - ProbeDaysPast - 1, StartDate - ProbeDaysPast, StartDate,
              StartDate + 2, StartDate + DefaultMaxDaysAhead,
              StartDate + DefaultMaxDaysAhead + 1}
\* what the site answers for a day without 15:00 fixtures of a supported
\* league: no page, a late kick-off only, a league that is not supported
ProbeMisses == {FailedPage, [ok |-> TRUE, matches |-> PyList(<<MatchLate>>)],
                [ok |-> TRUE, matches |-> PyList(<<MatchUnknownLeague>>)]}
\* the site has fixtures on the days of hits (a late one among them) and
\* answers miss on every other day
World(hits, miss) ==
    [d \in ProbeRange |-> IF d \in hits THEN [ok |-> TRUE, matches |-> LateBatch] ELSE miss]
ProbeWorlds == {<<hits, miss>> : hits \in {{}} \cup {{h} : h \in ProbeHits}
                                            \cup {{StartDate + 2, StartDate + 3}},
                                miss \in ProbeMisses}
ProbeTargets == {strftime(StartDate - ProbeDaysPast - 1), strftime(StartDate),
                 <<2024, 13, 1>>}
ProbeMaxDays == {0, 2, DefaultMaxDaysAhead}
ProbeInstants == {Midnight(StartDate) + m : m \in {0, MinutesPerDay - 1, MinutesPerDay}}

\* no search starts once the performance counters add up to MaxProbeOps
MaxProbeOps == 2

ProbeTick == Idle /\ Advance(ProbeInstants, MinutesPerDay) /\ UNCHANGED last

FindNextAvailableFixturesDate(target_date, max_days_ahead, w, io_ok) ==
    /\ Idle
    /\ StatsTotal(operation_stats) < MaxProbeOps
    /\ \E r \in {find_next_available_fixtures_date(DM, target_date, max_days_ahead,
                                                   World(w[1], w[2]), now, io_ok)} :
          /\ SetDM(r.dm)
          /\ last' = [op |-> "find_next_available_fixtures_date", target_date |-> target_date,
                      max_days_ahead |-> max_days_ahead, world |-> w, ret |-> r.ret,
                      probes |-> r.probes]
          /\ UNCHANGED now

InitProbe == InitAt({Midnight(StartDate)})
NextProbe ==
    \/ ProbeTick
    \/ Return
    \/ \E target_date \in ProbeTargets, max_days_ahead \in ProbeMaxDays, w \in ProbeWorlds,
          io_ok \in BOOLEAN :
          FindNextAvailableFixturesDate(target_date, max_days_ahead, w, io_ok)
SpecProbe == InitProbe /\ [][NextProbe]_vars

\* the page of the day has a fixture of a supported league that kicks off at
\* 15:00
YieldsThreePm(page) ==
    /\ page.ok
    /\ \E i \in DOMAIN page.matches.v :
          /\ page.matches.v[i].v["league"] \in LEAGUES
          /\ page.matches.v[i].v["kickoff"] = PyStr("15:00")

\* C19: find_next_available_fixtures_date returns the earliest date d with
\* target <= d <= target + max_days_ahead, d not more than 7 days before
\* today, whose scrape yields a 15:00 fixture; it returns None exactly when
\* there is no such date; it makes at most max_days_ahead + 1 probes.  (A
\* target that is no date counts as today.)
C19_EarliestDate ==
    [][last'.op = "find_next_available_fixtures_date"
       => LET target == IF BadDate(last'.target_date) THEN now \div 1440
                        ELSE strptime(last'.target_date)
              world == World(last'.world[1], last'.world[2])
              found == {d \in target..(target + last'.max_days_ahead) :
                          d >= now \div 1440 - 7 /\ YieldsThreePm(world[d])}
          IN /\ found = {} <=> last'.ret = PyNone
             /\ found # {} =>
                   \E d \in found : /\ \A e \in found : d <= e
                                     /\ last'.ret = PyDate(strftime(d))
             /\ last'.probes <= last'.max_days_ahead + 1]_vars

\* a search from eight days back with the default window has skipped the
\* first day, probed on and returned the third day from today
C19_Witness ==
    /\ last.op = "find_next_available_fixtures_date"
    /\ last.target_date = strftime(StartDate - 8)
    /\ last.max_days_ahead = 14
    /\ now = Midnight(StartDate)
    /\ last.ret = PyDate(strftime(StartDate + 2))
    /\ last.probes = 10

-----------------------------------------------------------------------------
(* app.py: the two status endpoints, and Specification SpecTracker *)

\* SELECTORS, a list: the panel members in assignment order
SELECTORS_in_order == <<"Glynny", "Eamonn Bone", "Mickey D", "Rob Carney",
                        "Steve H", "Danny", "Eddie Lee", "Fran Radar">>

\* d.get(field, default)
DictGet(d, field, default) == IF field \in DOMAIN d.v THEN d.v[field] ELSE default

\* the first live match with the teams of the selection, None if there is none
find_live_match(live_matches, home_team, away_team) ==
    LET hits == SelectSeq(live_matches,
                    LAMBDA m : /\ DictGet(m, "home_team", PyNone) = home_team
                               /\ DictGet(m, "away_team", PyNone) = away_team)
    IN IF hits = <<>> THEN PyNone ELSE hits[1]

\* get_tracker_data: the entry of a selector that has a match assigned
tracker_match_info(selector, match_data, live_score_data, t) ==
    LET home_team == DictGet(match_data, "home_team", PyNone)
        away_team == DictGet(match_data, "away_team", PyNone)
        live == Truthy(live_score_data)
    IN PyDict([selector |-> PyStr(selector), home_team |-> home_team,
               away_team |-> away_team,
               home_score |-> IF live THEN DictGet(live_score_data, "home_score", PyInt(0))
                              ELSE PyInt(0),
               away_score |-> IF live THEN DictGet(live_score_data, "away_score", PyInt(0))
                              ELSE PyInt(0),
               status |-> IF live
                          THEN DictGet(live_score_data, "status", PyStr("not_started"))
                          ELSE PyStr("not_started"),
               league |-> IF live THEN DictGet(live_score_data, "league", PyStr("Unknown"))
                          ELSE PyStr("Unknown"),
               prediction |-> DictGet(match_data, "prediction", PyStr("TBD")),
               confidence |-> DictGet(match_data, "confidence", PyInt(5)),
               is_selected |-> PyTrue, last_updated |-> PyIso(t)])

\* get_tracker_data: the entry of a selector that has no match assigned
tracker_placeholder_info(selector, t) ==
    PyDict([selector |-> PyStr(selector), home_team |-> PyNone, away_team |-> PyNone,
            home_score |-> PyInt(0), away_score |-> PyInt(0),
            status |-> PyStr("no_selection"), league |-> PyNone,
            prediction |-> PyStr("TBD"), confidence |-> PyInt(0),
            is_selected |-> PyFalse,
            placeholder_text |-> PyStr("Awaiting Match Assignment"),
            last_updated |-> PyIso(t)])

\* for selector in SELECTORS: ..., from the i-th selector on, listed holding
\* the entries appended so far; every assigned selector costs one scrape of
\* the live scores, and tracker_selected is the rest of the loop body once
\* that scrape has returned live_result
RECURSIVE tracker_matches(_, _, _, _, _, _, _, _)
RECURSIVE tracker_selected(_, _, _, _, _, _, _, _)
tracker_selected(live_result, i, selections, target_date, page, t, io_ok, listed) ==
    tracker_matches(live_result.dm, i + 1, selections, target_date, page, t, io_ok,
        Append(listed,
            tracker_match_info(SELECTORS_in_order[i], selections.v[SELECTORS_in_order[i]],
                find_live_match(live_result.ret.v,
                    DictGet(selections.v[SELECTORS_in_order[i]], "home_team", PyNone),
                    DictGet(selections.v[SELECTORS_in_order[i]], "away_team", PyNone)),
                t)))

tracker_matches(dm, i, selections, target_date, page, t, io_ok, listed) ==
    IF i > Len(SELECTORS_in_order) THEN [dm |-> dm, ret |-> listed]
    ELSE IF Truthy(selections) /\ SELECTORS_in_order[i] \in DOMAIN selections.v
    THEN tracker_selected(
             TheOne({scrape_unified_bbc_matches(dm, target_date, page, t, io_ok)}),
             i, selections, target_date, page, t, io_ok, listed)
    ELSE tracker_matches(dm, i + 1, selections, target_date, page, t, io_ok,
             Append(listed, tracker_placeholder_info(SELECTORS_in_order[i], t)))

\* a tracker that lists the selected matches only
get_tracker_data_selected_only(dm, target_date, page, t, io_ok) ==
    TheOne({
        TheOne({[dm |-> listed.dm,
                 ret |-> [code |-> 200,
                          matches |-> SelectSeq(listed.ret,
                                          LAMBDA m : m.v["is_selected"] = PyTrue)]] :
                listed \in {tracker_matches(loaded.dm, 1, loaded.ret, target_date, page,
                                            t, io_ok, <<>>)}}) :
        loaded \in {load_weekly_selections(dm, get_current_prediction_week(t), t)}})

\* GET /api/tracker-data?date=target_date
get_tracker_data(dm, target_date, page, t, io_ok) ==
    TheOne({
        TheOne({[dm |-> listed.dm, ret |-> [code |-> 200, matches |-> listed.ret]] :
                listed \in {tracker_matches(loaded.dm, 1, loaded.ret, target_date, page,
                                            t, io_ok, <<>>)}}) :
        loaded \in {load_weekly_selections(dm, get_current_prediction_week(t), t)}})

\* get_btts_status: the entry of a selector without a selection
btts_placeholder(t) ==
    PyDict([home_team |-> PyNone, away_team |-> PyNone, home_score |-> PyInt(0),
            away_score |-> PyInt(0), status |-> PyStr("no_selection"), league |-> PyNone,
            btts_detected |-> PyFalse, placeholder |-> PyTrue,
            placeholder_text |-> PyStr("Awaiting Match Assignment"),
            last_updated |-> PyIso(t)])

\* an entry that reports both teams to score as soon as one of them has
btts_match_any_goal(match_data, live_match, t) ==
    LET home_team == DictGet(match_data, "home_team", PyNone)
        away_team == DictGet(match_data, "away_team", PyNone)
        home_score == DictGet(live_match, "home_score", PyInt(0))
        away_score == DictGet(live_match, "away_score", PyInt(0))
    IN IF Truthy(live_match)
       THEN PyDict([home_team |-> home_team, away_team |-> away_team,
                    home_score |-> home_score, away_score |-> away_score,
                    status |-> DictGet(live_match, "status", PyStr("not_started")),
                    league |-> DictGet(live_match, "league", PyStr("Unknown")),
                    btts_detected |-> IF home_score.v > 0 \/ away_score.v > 0
                                      THEN PyTrue ELSE PyFalse,
                    last_updated |-> PyIso(t)])
       ELSE PyDict([home_team |-> home_team, away_team |-> away_team,
                    home_score |-> PyInt(0), away_score |-> PyInt(0),
                    status |-> PyStr("not_started"), league |-> PyStr("Unknown"),
                    btts_detected |-> PyFalse, last_updated |-> PyIso(t)])

\* get_btts_status: the entry of a selection, from the live match if there
\* is one
btts_match(match_data, live_match, t) ==
    LET home_team == DictGet(match_data, "home_team", PyNone)
        away_team == DictGet(match_data, "away_team", PyNone)
    IN IF Truthy(live_match)
       THEN LET home_score == DictGet(live_match, "home_score", PyInt(0))
                away_score == DictGet(live_match, "away_score", PyInt(0))
            IN PyDict([home_team |-> home_team, away_team |-> away_team,
                       home_score |-> home_score, away_score |-> away_score,
                       status |-> DictGet(live_match, "status", PyStr("not_started")),
                       league |-> DictGet(live_match, "league", PyStr("Unknown")),
                       btts_detected |-> IF home_score.v > 0 /\ away_score.v > 0
                                         THEN PyTrue ELSE PyFalse,
                       last_updated |-> PyIso(t)])
       ELSE PyDict([home_team |-> home_team, away_team |-> away_team,
                    home_score |-> PyInt(0), away_score |-> PyInt(0),
                    status |-> PyStr("not_started"), league |-> PyStr("Unknown"),
                    btts_detected |-> PyFalse, last_updated |-> PyIso(t)])

\* GET /api/btts-status?date=target_date
get_btts_status(dm, target_date, page, t, io_ok) ==
    TheOne({
        IF ~ Truthy(loaded.ret)
        THEN [dm |-> loaded.dm,
              ret |-> [code |-> 200, status |-> "NO_SELECTIONS",
                       matches |-> [selector \in SELECTORS |-> btts_placeholder(t)]]]
        ELSE TheOne({
            [dm |-> live_result.dm,
             ret |-> [code |-> 200, status |-> "ACTIVE",
                      matches |-> [selector \in DOMAIN loaded.ret.v \cup SELECTORS |->
                          IF selector \in DOMAIN loaded.ret.v
                          THEN btts_match(loaded.ret.v[selector],
                                   find_live_match(live_result.ret.v,
                                       DictGet(loaded.ret.v[selector], "home_team", PyNone),
                                       DictGet(loaded.ret.v[selector], "away_team", PyNone)),
                                   t)
                          ELSE btts_placeholder(t)]]] :
            live_result \in {scrape_unified_bbc_matches(loaded.dm, target_date, page,
                                                        t, io_ok)}}) :
        loaded \in {load_weekly_selections(dm, get_current_prediction_week(t), t)}})

\* get_btts_summary: the entry of a selection, from the live match if there
\* is one
summary_entry(match_data, match_info) ==
    LET home_team == DictGet(match_data, "home_team", PyNone)
        away_team == DictGet(match_data, "away_team", PyNone)
    IN IF Truthy(match_info)
       THEN LET home_score == DictGet(match_info, "home_score", PyInt(0))
                away_score == DictGet(match_info, "away_score", PyInt(0))
            IN PyDict([home_team |-> home_team, away_team |-> away_team,
                       btts_detected |-> IF home_score.v > 0 /\ away_score.v > 0
                                         THEN PyTrue ELSE PyFalse,
                       status |-> DictGet(match_info, "status", PyStr("not_started")),
                       home_score |-> home_score, away_score |-> away_score])
       ELSE PyDict([home_team |-> home_team, away_team |-> away_team,
                    btts_detected |-> PyFalse, status |-> PyStr("not_started"),
                    home_score |-> PyInt(0), away_score |-> PyInt(0)])

\* an accumulator that is never FAILED
accumulator_status_never_failed(btts_success, btts_pending, btts_failed, total_selections) ==
    IF btts_success = total_selections THEN "COMPLETE_SUCCESS"
    ELSE IF btts_success > 0 THEN "PARTIAL_SUCCESS"
    ELSE IF btts_pending > 0 THEN "IN_PROGRESS"
    ELSE "NOT_STARTED"

\* get_btts_summary: # Determine accumulator status
accumulator_status(btts_success, btts_pending, btts_failed, total_selections) ==
    IF btts_failed > 0 THEN "FAILED"
    ELSE IF btts_success = total_selections THEN "COMPLETE_SUCCESS"
    ELSE IF btts_success > 0 THEN "PARTIAL_SUCCESS"
    ELSE IF btts_pending > 0 THEN "IN_PROGRESS"
    ELSE "NOT_STARTED"

\* get_btts_summary: the answer for the selections and the live matches
btts_summary(selections, all_live_matches) ==
    LET selectors_data ==
            [selector \in DOMAIN selections.v |->
                summary_entry(selections.v[selector],
                    find_live_match(all_live_matches,
                        DictGet(selections.v[selector], "home_team", PyNone),
                        DictGet(selections.v[selector], "away_team", PyNone)))]
        success == {s \in DOMAIN selectors_data :
                       selectors_data[s].v["btts_detected"] = PyTrue}
        failed == {s \in DOMAIN selectors_data \ success :
                      selectors_data[s].v["status"] = PyStr("finished")}
        btts_success == Cardinality(success)
        btts_failed == Cardinality(failed)
        btts_pending == Cardinality(DOMAIN selectors_data) - btts_success - btts_failed
    IN [code |-> 200, status |-> "ACTIVE", selectors |-> selectors_data,
        total_matches |-> Cardinality(DOMAIN selections.v),
        btts_success |-> btts_success, btts_pending |-> btts_pending,
        btts_failed |-> btts_failed,
        accumulator_status |-> accumulator_status(btts_success, btts_pending, btts_failed,
                                                  Cardinality(DOMAIN selections.v))]

\* GET /api/btts-summary?date=target_date
get_btts_summary(dm, target_date, page, t, io_ok) ==
    TheOne({
        IF ~ Truthy(loaded.ret)
        THEN [dm |-> loaded.dm,
              ret |-> [code |-> 200, status |-> "NO_SELECTIONS",
                       selectors |-> [selector \in {} |-> PyNone], total_matches |-> 0,
                       btts_success |-> 0, btts_pending |-> 0, btts_failed |-> 0,
                       accumulator_status |-> "NO_DATA"]]
        ELSE TheOne({
            [dm |-> live_result.dm, ret |-> btts_summary(loaded.ret, live_result.ret.v)] :
            live_result \in {scrape_unified_bbc_matches(loaded.dm, target_date, page,
                                                        t, io_ok)}}) :
        loaded \in {load_weekly_selections(dm, get_current_prediction_week(t), t)}})

\* the run ends once the performance counters add up to MaxTrackerOps
MaxTrackerOps == 8

\* a match of the live page with its score
Scored(match, home_score, away_score, status) ==
    PyDict([f \in DOMAIN match.v |->
        CASE f = "home_score" -> PyInt(home_score)
          [] f = "away_score" -> PyInt(away_score)
          [] f = "status" -> PyStr(status)
          [] OTHER -> match.v[f]])

\* the live page: not there, before kick-off, both teams have scored in one
\* match and one team in another
LivePages == {FailedPage, [ok |-> TRUE, matches |-> WeekBatch],
              [ok |-> TRUE, matches |-> PyList(<<Scored(MatchA, 2, 1, "live"),
                                                 Scored(MatchC, 1, 0, "finished")>>)]}
\* the date of the request: today by default, or the date parameter
TrackerDates == {strftime(StartDate), strftime(StartDate + 1)}

GetTrackerData(target_date, page, io_ok) ==
    /\ Idle
    /\ \E r \in {get_tracker_data(DM, target_date, page, now, io_ok)} :
          /\ StatsTotal(r.dm.stats) <= MaxTrackerOps
          /\ SetDM(r.dm)
          /\ last' = [op |-> "get_tracker_data", ret |-> r.ret]
          /\ UNCHANGED now

GetBttsStatus(target_date, page, io_ok) ==
    /\ Idle
    /\ \E r \in {get_btts_status(DM, target_date, page, now, io_ok)} :
          /\ StatsTotal(r.dm.stats) <= MaxTrackerOps
          /\ SetDM(r.dm)
          /\ last' = [op |-> "get_btts_status", page |-> page, ret |-> r.ret]
          /\ UNCHANGED now

GetBttsSummary(target_date, page, io_ok) ==
    /\ Idle
    /\ \E r \in {get_btts_summary(DM, target_date, page, now, io_ok)} :
          /\ StatsTotal(r.dm.stats) <= MaxTrackerOps
          /\ SetDM(r.dm)
          /\ last' = [op |-> "get_btts_summary", page |-> page, ret |-> r.ret]
          /\ UNCHANGED now

NextTracker ==
    \/ WebTick
    \/ Return
    \/ \E m \in RequestMatchIds, s \in RequestSelectors, w \in WebWorlds :
          StatsTotal(operation_stats) < MaxTrackerOps /\ Assign(m, s, w[1], w[2])
    \/ \E s \in RequestSelectors, io_ok \in BOOLEAN :
          StatsTotal(operation_stats) < MaxTrackerOps /\ Unassign(s, io_ok)
    \/ \E target_date \in TrackerDates, page \in LivePages, io_ok \in BOOLEAN :
          GetTrackerData(target_date, page, io_ok)
    \/ \E target_date \in TrackerDates, page \in LivePages, io_ok \in BOOLEAN :
          GetBttsStatus(target_date, page, io_ok)
    \/ \E target_date \in TrackerDates, page \in LivePages, io_ok \in BOOLEAN :
          GetBttsSummary(target_date, page, io_ok)
SpecTracker == Init /\ [][NextTracker]_vars

\* the status entry e stands for the stored selection: its teams, and not
\* the placeholder status
IsMatchEntry(e, selection) ==
    /\ e.v["home_team"] = selection.v["home_team"]
    /\ e.v["away_team"] = selection.v["away_team"]
    /\ e.v["status"] # PyStr("no_selection")

IsPlaceholderEntry(e) ==
    /\ e.v["status"] = PyStr("no_selection")
    /\ e.v["home_team"] = PyNone
    /\ e.v["away_team"] = PyNone

LiveRecords(page, selection) ==
    IF page.ok
    THEN SelectSeq(page.matches.v,
             LAMBDA m : /\ m.v["home_team"] = selection.v["home_team"]
                        /\ m.v["away_team"] = selection.v["away_team"])
    ELSE <<>>

\* C21: for every assigned selector get_btts_status takes the live record
\* whose home_team and away_team both equal the assignment's: with such a
\* record the entry has its scores and status and btts_detected is true
\* exactly when both scores are above 0; without one the entry is
\* not_started, 0-0, btts_detected false.
C21_LiveMatchByBothTeams ==
    [][last'.op = "get_btts_status" =>
         LET stored == StoredSelections(selections_files, now)
         IN \A s \in DOMAIN stored :
              LET found == LiveRecords(last'.page, stored[s])
                  e == last'.ret.matches[s]
              IN IF found # <<>>
                 THEN /\ e.v["home_score"] = found[1].v["home_score"]
                      /\ e.v["away_score"] = found[1].v["away_score"]
                      /\ e.v["status"] = found[1].v["status"]
                      /\ e.v["btts_detected"] = PyTrue
                           <=> (found[1].v["home_score"].v > 0
                                /\ found[1].v["away_score"].v > 0)
                      /\ e.v["btts_detected"] \in {PyTrue, PyFalse}
                 ELSE /\ e.v["home_score"] = PyInt(0)
                      /\ e.v["away_score"] = PyInt(0)
                      /\ e.v["status"] = PyStr("not_started")
                      /\ e.v["btts_detected"] = PyFalse]_vars

\* one selector's match is live at 2-1 and detected, another's has finished
\* 1-0 and is not
C21_Witness ==
    /\ last.op = "get_btts_status"
    /\ DOMAIN StoredSelections(selections_files, now) = {"Glynny", "Eamonn Bone"}
    /\ last.ret.matches["Glynny"].v["btts_detected"] = PyTrue
    /\ last.ret.matches["Glynny"].v["status"] = PyStr("live")
    /\ last.ret.matches["Eamonn Bone"].v["btts_detected"] = PyFalse
    /\ last.ret.matches["Eamonn Bone"].v["home_score"] = PyInt(1)
    /\ last.ret.matches["Eamonn Bone"].v["status"] = PyStr("finished")

\* both teams have scored in the live record of the selection; it has
\* finished without that
BothScored(page, selection) ==
    /\ LiveRecords(page, selection) # <<>>
    /\ LiveRecords(page, selection)[1].v["home_score"].v > 0
    /\ LiveRecords(page, selection)[1].v["away_score"].v > 0
FinishedShort(page, selection) ==
    /\ LiveRecords(page, selection) # <<>>
    /\ LiveRecords(page, selection)[1].v["status"] = PyStr("finished")
    /\ ~ BothScored(page, selection)

\* C22: the accumulator status of get_btts_summary is FAILED if a tracked
\* match has finished without both teams scoring, and otherwise
\* COMPLETE_SUCCESS if both teams have scored in every tracked match.
C22_AccumulatorStatus ==
    [][(last'.op = "get_btts_summary" /\ last'.ret.status = "ACTIVE") =>
         LET stored == StoredSelections(selections_files, now)
         IN IF \E s \in DOMAIN stored : FinishedShort(last'.page, stored[s])
            THEN last'.ret.accumulator_status = "FAILED"
            ELSE /\ last'.ret.accumulator_status # "FAILED"
                 /\ (\A s \in DOMAIN stored : BothScored(last'.page, stored[s]))
                      <=> last'.ret.accumulator_status = "COMPLETE_SUCCESS"]_vars

\* a single selection that finished 1-0 has failed the accumulator
C22_WitnessFailed ==
    /\ last.op = "get_btts_summary"
    /\ DOMAIN StoredSelections(selections_files, now) = {"Eamonn Bone"}
    /\ last.ret.selectors["Eamonn Bone"].v["home_score"] = PyInt(1)
    /\ last.ret.selectors["Eamonn Bone"].v["away_score"] = PyInt(0)
    /\ last.ret.selectors["Eamonn Bone"].v["status"] = PyStr("finished")
    /\ last.ret.accumulator_status = "FAILED"

\* a single selection in which both teams have scored completes it
C22_WitnessSuccess ==
    /\ last.op = "get_btts_summary"
    /\ DOMAIN StoredSelections(selections_files, now) = {"Glynny"}
    /\ last.ret.selectors["Glynny"].v["btts_detected"] = PyTrue
    /\ last.ret.accumulator_status = "COMPLETE_SUCCESS"

-----------------------------------------------------------------------------
(* Specification SpecPut: repeated puts into the fixture cache *)

\* the run ends once the performance counters add up to MaxPutOps
MaxPutOps == 6
\* within and beyond the life of a memory entry
PutInstants == {Midnight(StartDate) + m :
                  m \in {0, 1, MemoryCacheTtlMinutes, MemoryCacheTtlMinutes + 1}}
PutBatches == {GoodBatch, OtherBatch}
PutDates == {InWindowDate, strftime(StartDate + 1)}

PutTick == Idle /\ Advance(PutInstants, MemoryCacheTtlMinutes + 1) /\ UNCHANGED last

Put(fixtures_data, date, io_ok) ==
    /\ Idle
    /\ \E r \in {cache_bbc_fixtures(DM, fixtures_data, date, now, io_ok)} :
          /\ StatsTotal(r.dm.stats) <= MaxPutOps
          /\ SetDM(r.dm)
          /\ last' = [op |-> "cache_bbc_fixtures", data |-> fixtures_data, date |-> date,
                      league |-> "", ret |-> IF r.ret THEN PyTrue ELSE PyFalse]
          /\ UNCHANGED now

InitPut == InitAt({Midnight(StartDate)})
NextPut ==
    \/ PutTick
    \/ Return
    \/ \E fixtures_data \in PutBatches, date \in PutDates, io_ok \in BOOLEAN :
          Put(fixtures_data, date, io_ok)
    \/ \E d \in PutDates : GetBbcFixtures(d, "")
SpecPut == InitPut /\ [][NextPut]_vars

C24_NoExceptionEscapes ==
    \A t \in Threads : ~ pc[t].raised

-----------------------------------------------------------------------------
(* Specification SpecOverride: the panel confirming a short accumulator *)

required_confirmation ==
    PyStr("I confirm that I want to proceed with fewer than 8 selections")
\* the required phrase in lower case, and with a space after it
LowerCaseConfirmation ==
    PyStr("i confirm that i want to proceed with fewer than 8 selections")
PaddedConfirmation == Cat(required_confirmation, PyStr(" "))

\* an override that compares the phrase without regard to case
override_selections_any_case(dm, data, t, io_ok) ==
    IF data = PyNone THEN [dm |-> dm, ret |-> Response(500, "'NoneType'")]
    ELSE IF DictGet(data, "confirm_message", EmptyStr)
               \notin {required_confirmation, LowerCaseConfirmation}
    THEN [dm |-> dm, ret |-> Response(400, "Invalid confirmation message")]
    ELSE TheOne({
        TheOne({
            IF saved.ret
            THEN [dm |-> saved.dm, ret |-> Response(200, "")]
            ELSE [dm |-> saved.dm, ret |-> Response(500, "Failed to save selections")] :
            saved \in {save_selections(loaded.dm, loaded.ret, t, io_ok)}}) :
        loaded \in {load_selections(dm, t)}})

\* POST /api/override with the JSON body data (None: a body that is no JSON
\* object, which data.get raises on and the handler answers 500)
override_selections(dm, data, t, io_ok) ==
    IF data = PyNone THEN [dm |-> dm, ret |-> Response(500, "'NoneType'")]
    ELSE IF DictGet(data, "confirm_message", EmptyStr) # required_confirmation
    THEN [dm |-> dm, ret |-> Response(400, "Invalid confirmation message")]
    ELSE TheOne({
        TheOne({
            IF saved.ret
            THEN [dm |-> saved.dm, ret |-> Response(200, "")]
            ELSE [dm |-> saved.dm, ret |-> Response(500, "Failed to save selections")] :
            saved \in {save_selections(loaded.dm, loaded.ret, t, io_ok)}}) :
        loaded \in {load_selections(dm, t)}})

\* the run ends once the performance counters add up to MaxOverrideOps
MaxOverrideOps == 6
Confirming(phrase) == PyDict([k \in {"confirm_message"} |-> phrase])
OverrideBodies ==
    {PyNone, EmptyDict} \cup
    {Confirming(p) : p \in {required_confirmation, EmptyStr, LowerCaseConfirmation,
                            PaddedConfirmation, PyStr("yes")}}

Override(data, io_ok) ==
    /\ Idle
    /\ \E r \in {override_selections(DM, data, now, io_ok)} :
          /\ StatsTotal(r.dm.stats) <= MaxOverrideOps
          /\ SetDM(r.dm)
          /\ last' = [op |-> "override_selections", data |-> data, selector |-> "",
                      ret |-> r.ret]
          /\ UNCHANGED now

\* an unassign within the same bound of counted operations
OverrideUnassign(selector, io_ok) ==
    /\ StatsTotal(operation_stats) < MaxOverrideOps - 1
    /\ Unassign(selector, io_ok)

NextOverride ==
    \/ WebTick
    \/ Return
    \/ \E data \in OverrideBodies, io_ok \in BOOLEAN : Override(data, io_ok)
    \/ \E s \in {"Eamonn Bone"}, io_ok \in BOOLEAN : OverrideUnassign(s, io_ok)
SpecOverride == Init /\ [][NextOverride]_vars

\* C25: an override proceeds to load and save only when the phrase sent is
\* exactly the required confirmation; with any other phrase, the empty one
\* and those differing in case or whitespace included, it answers an error and
\* nothing is loaded or saved: files, memory tier and counters are as before.
C25_OverrideNeedsExactPhrase ==
    [][last'.op = "override_selections"
       => IF last'.data = Confirming(PyStr(
                 "I confirm that I want to proceed with fewer than 8 selections"))
          THEN /\ last'.ret.status \in {200, 500}
               /\ StatsTotal(operation_stats') > StatsTotal(operation_stats)
               /\ last'.ret.status = 500 => selections_files' = selections_files
          ELSE /\ last'.ret.status \in {400, 500}
               /\ DataManagerUntouched]_vars

\* the phrase in lower case has been refused while a selection is stored
C25_Witness ==
    /\ last.op = "override_selections"
    /\ last.data = Confirming(LowerCaseConfirmation)
    /\ last.ret = Response(400, "Invalid confirmation message")
    /\ DOMAIN StoredSelections(selections_files, now) = {"Eamonn Bone"}
    /\ operation_stats.writes = 0

-----------------------------------------------------------------------------
(* The life of a selections map in the memory tier, checked under SpecSel *)

\* C26: a load for a week whose selections map was put into the memory tier
\* less than selections_cache_ttl (12 hours) ago is answered from memory: it
\* counts a cache hit, reads no file and returns the map held in memory.
C26_ServedFromMemoryTwelveHours ==
    [][(/\ last'.op = "load_weekly_selections"
        /\ memory_cache_key("selections", last'.date) \in DOMAIN memory_cache
        /\ Truthy(memory_cache[memory_cache_key("selections", last'.date)])
        /\ now - cache_timestamps[memory_cache_key("selections", last'.date)]
             < SelectionsCacheTtlHours * MinutesPerHour)
       => /\ operation_stats'.cache_hits = operation_stats.cache_hits + 1
          /\ operation_stats'.reads = operation_stats.reads
          /\ last'.ret = memory_cache[memory_cache_key("selections", last'.date)]]_vars

-----------------------------------------------------------------------------
(* Specification SpecLeague: league-scoped cache files read beside the
   date-only ones *)

\* the data directory as the server starts: empty, or holding the league file
\* bbc_cache_<date>_premier_league.json that is an hour old
LeagueNames == {"", "Premier League", "ALL_LEAGUES"}
InitLeague ==
    /\ Constructed
    /\ now = Midnight(StartDate)
    /\ selections_files = [p \in {} |-> PyNone]
    /\ fixtures_files \in {[p \in {} |-> PyNone],
                           [p \in {FixturesPath(InWindowDate, "Premier League")} |->
                               FixturesDocument(OtherBatch, InWindowDate, EarlierRun)]}
    /\ memory_cache = [k \in {} |-> PyNone]
    /\ cache_timestamps = [k \in {} |-> 0]
    /\ operation_stats = [reads |-> 0, writes |-> 0, cache_hits |-> 0, cache_misses |-> 0]
    /\ last = NoCall
\* BBCSportScraper.clear_cache(): every bbc_cache_* file of the fixtures
\* directory is removed; the DataManager's memory tier is not touched
clear_cache(dm) == [dm EXCEPT !.fix = [p \in {} |-> PyNone]]

ClearCache ==
    /\ Idle
    /\ fixtures_files # << >>
    /\ SetDM(clear_cache(DM))
    /\ last' = [op |-> "clear_cache", data |-> PyNone, date |-> InWindowDate,
                league |-> "", ret |-> PyNone]
    /\ UNCHANGED now

NextLeague ==
    \/ PutTick
    \/ Return
    \/ ClearCache
    \/ \E fixtures_data \in PutBatches, date \in PutDates, io_ok \in BOOLEAN :
          Put(fixtures_data, date, io_ok)
    \/ \E d \in PutDates, l \in LeagueNames : GetBbcFixtures(d, l)
SpecLeague == InitLeague /\ [][NextLeague]_vars

-----------------------------------------------------------------------------
(* The scraper's use of its own cache entries, checked under SpecCache *)

\* C28: a scrape for a date whose fixtures are stored, unexpired and inside
\* the date windows of the cache and of the scraper (what an earlier scrape of
\* the date has left) returns the stored matches and sends no request.
C28_SecondScrapeUsesCache ==
    [][(/\ last'.op = "scrape_unified_bbc_matches"
        /\ HasEntry(last'.date, "")
        /\ Truthy(get_bbc_fixtures(DM, last'.date, "", now).ret)
        /\ is_cache_valid_for_date(last'.date, now))
       => /\ ~ last'.fetched
          /\ last'.ret = EntryPayload(last'.date, "")]_vars

\* every match of the list kicks off at 15:00
AllThreePm(matches) ==
    \A i \in DOMAIN matches.v : DictGet(matches.v[i], "kickoff", PyNone) = PyStr("15:00")

\* C29: a fixtures-mode scrape returns only matches with kickoff "15:00", and
\* a cache entry it writes holds only such matches.
C29_FixturesModeOnlyThreePm ==
    [][last'.op = "scrape_unified_bbc_matches"
       => /\ AllThreePm(last'.ret)
          /\ \A p \in DOMAIN fixtures_files' :
                (p \notin DOMAIN fixtures_files \/ fixtures_files'[p] # fixtures_files[p])
                => AllThreePm(fixtures_files'[p].v["fixtures"])]_vars

-----------------------------------------------------------------------------
(* The Saturday of the prediction week around midday, checked under SpecWeek *)

\* 12:01, the cut-over of test_prediction_week.py, as a minute of the day
SaturdayCutoff == 12 * MinutesPerHour + 1

-----------------------------------------------------------------------------
(* Specification SpecInit: DataManager(base_path) on a disk where some
   directories cannot be created *)

Subdirectories == <<"selections", "fixtures", "backups">>
fallback_paths == <<"/tmp/football_data", "/tmp/app_data", "./tmp_data",
                    "/var/tmp/football_data">>
\* an attribute the object does not have (yet)
NoAttribute == [ty |-> "unset", v |-> 0]

\* os.makedirs(os.path.join(base, Subdirectories[i]), exist_ok=True) raises
MakedirsFails(blocked, base, i) == <<base, Subdirectories[i]>> \in blocked

\* _try_fallback_directories() from the i-th fallback path on; an append to
\* the list runs only when the object has the list
RECURSIVE try_fallback_directories(_, _, _)
try_fallback_directories(self, i, blocked) ==
    IF self.initialization_errors = NoAttribute
    THEN [self EXCEPT !.raised = "AttributeError"]
    ELSE IF i > Len(fallback_paths)
    THEN [self EXCEPT !.initialization_errors =
                          Append(@, <<"All directory creation attempts failed", "">>)]
    ELSE IF \E d \in DOMAIN Subdirectories : MakedirsFails(blocked, fallback_paths[i], d)
    THEN try_fallback_directories(
             [self EXCEPT !.base_path = fallback_paths[i],
                          !.initialization_errors =
                              Append(@, <<"Fallback failed", fallback_paths[i]>>)],
             i + 1, blocked)
    ELSE [self EXCEPT !.base_path = fallback_paths[i],
                      !.initialization_errors =
                          Append(@, <<"Using fallback directories", fallback_paths[i]>>)]

\* the loop of _ensure_directories_with_fallback() over the primary
\* directories from the d-th on: a failure is appended to
\* self.initialization_errors, which raises when the attribute is not there
RECURSIVE ensure_primary_directories(_, _, _, _)
ensure_primary_directories(self, d, success, blocked) ==
    IF d > Len(Subdirectories)
    THEN IF success THEN self ELSE try_fallback_directories(self, 1, blocked)
    ELSE IF ~ MakedirsFails(blocked, self.base_path, d)
    THEN ensure_primary_directories(self, d + 1, success, blocked)
    ELSE IF self.initialization_errors = NoAttribute
    THEN [self EXCEPT !.raised = "AttributeError"]
    ELSE ensure_primary_directories(
             [self EXCEPT !.initialization_errors =
                              Append(@, <<"Directory creation failed", Subdirectories[d]>>)],
             d + 1, FALSE, blocked)

ensure_directories_with_fallback(self, blocked) ==
    ensure_primary_directories(self, 1, TRUE, blocked)

\* DataManager.__init__(base_path): the directories are made before
\* self.initialization_errors is assigned
DataManager_init(base_path, blocked) ==
    LET made == ensure_directories_with_fallback(
                    [base_path |-> base_path, initialization_errors |-> NoAttribute,
                     raised |-> ""], blocked)
    IN IF made.raised # "" THEN made
       ELSE [made EXCEPT !.initialization_errors = <<>>]

\* the disks: every directory of the bases in bs can be made but the one
\* named sub
PrimaryBase == "data"
BasePaths == {PrimaryBase} \cup {fallback_paths[i] : i \in DOMAIN fallback_paths}
Disks == {{<<b, Subdirectories[d]>> : b \in bs} :
             bs \in SUBSET BasePaths, d \in DOMAIN Subdirectories}
InitInstants == {Midnight(StartDate) + m : m \in {0, 1}}

InitTick == Idle /\ Advance(InitInstants, 1) /\ UNCHANGED last

Construct(blocked) ==
    /\ Idle
    /\ OneThread
    /\ last' = [op |-> "DataManager", base_path |-> PrimaryBase, blocked |-> blocked,
                ret |-> DataManager_init(PrimaryBase, blocked)]
    /\ UNCHANGED <<now, selections_files, fixtures_files, memory_cache,
                   cache_timestamps, operation_stats>>

NextInit ==
    \/ InitTick
    \/ Return
    \/ \E blocked \in Disks : Construct(blocked)
InitDisks == InitAt({Midnight(StartDate)})
SpecInit == InitDisks /\ [][NextInit]_vars

\* C31: the constructor does not raise when a primary directory cannot be
\* created: it completes, on the first fallback base whose three directories
\* can all be made if there is one, with the failure recorded in
\* initialization_errors.
C31_ConstructorCompletes ==
    (last.op = "DataManager"
     /\ \E d \in DOMAIN Subdirectories : MakedirsFails(last.blocked, last.base_path, d))
    => /\ last.ret.raised = ""
       /\ last.ret.initialization_errors # <<>>
       /\ \A i \in DOMAIN fallback_paths :
             (/\ \A d \in DOMAIN Subdirectories :
                    ~ MakedirsFails(last.blocked, fallback_paths[i], d)
              /\ \A j \in 1..(i - 1) : \E d \in DOMAIN Subdirectories :
                    MakedirsFails(last.blocked, fallback_paths[j], d))
             => last.ret.base_path = fallback_paths[i]

-----------------------------------------------------------------------------
(* The write-side gate against the read-side validation, under SpecCache *)

\* C32: a read of a stored entry whose batch the scraper's gate accepts, which
\* has not expired and whose date is inside the window, returns that batch and
\* leaves the entry in place.
C32_GateAgreesWithRead ==
    [][(/\ last'.op = "get_bbc_fixtures"
        /\ last'.league = ""
        /\ HasEntry(last'.date, "")
        /\ validate_scraped_matches(EntryPayload(last'.date, ""))
        /\ ~ cache_expired(Entry(last'.date, "").v["metadata"], now)
        /\ ~ date_outside_window(last'.date, now))
       => /\ last'.ret = EntryPayload(last'.date, "")
          /\ Exists(fixtures_files', FixturesPath(last'.date, ""))]_vars

-----------------------------------------------------------------------------
(* What a successful put leaves on disk, checked under SpecLeague *)

\* C33: whenever cache_bbc_fixtures(X, d) returns True the entry of d is on
\* disk afterwards and its payload is X.
C33_TruePutIsOnDisk ==
    [][(last'.op = "cache_bbc_fixtures" /\ last'.ret = PyTrue)
       => /\ Exists(fixtures_files', FixturesPath(last'.date, ""))
          /\ load_json_file(fixtures_files', FixturesPath(last'.date, "")).v["fixtures"]
               = last'.data]_vars

-----------------------------------------------------------------------------
(* Specification SpecAlias: a caller that changes the map a load gave it *)

\* a caller does S = load_weekly_selections(date); S[selector] = entry;
\* save_weekly_selections(S, date).  The map a load returns is the object the
\* memory tier holds (it returns the cached object, or caches the object it
\* returns), so the assignment changes the memory entry as well.
load_modify_save(dm, date, selector, entry, t, io_ok) ==
    TheOne({
        IF loaded.ret = PyNone
        THEN [dm |-> loaded.dm, data |-> PyNone, ret |-> PyNone]
        ELSE TheOne({
            [dm |-> saved.dm, data |-> PyDict(With(loaded.ret.v, selector, entry)),
             ret |-> IF saved.ret THEN PyTrue ELSE PyFalse] :
            saved \in {save_weekly_selections(
                          [loaded.dm EXCEPT !.mem[memory_cache_key("selections", date)] =
                               PyDict(With(loaded.ret.v, selector, entry))],
                          PyDict(With(loaded.ret.v, selector, entry)), date, t, io_ok)}}) :
        loaded \in {load_weekly_selections(dm, date, t)}})

\* the run ends once the performance counters add up to MaxAliasOps
MaxAliasOps == 7
AliasSaves == {<<TwoSelections, strftime(StartDate)>>,
               <<HugeSelections, strftime(StartDate)>>,
               <<EmptyDict, strftime(StartDate + 7)>>}
AliasChanges == {<<"Eamonn Bone", SelectionA>>, <<"Glynny", SelectionB>>}

LoadModifySave(date, selector, entry, io_ok) ==
    \E r \in {load_modify_save(DM, date, selector, entry, now, io_ok)} :
       /\ StatsTotal(r.dm.stats) <= MaxAliasOps
       /\ SetDM(r.dm)
       /\ last' = [op |-> "load_modify_save", data |-> r.data, date |-> date, ret |-> r.ret]
       /\ UNCHANGED now

AliasSave(selections_data, date, io_ok) ==
    /\ StatsTotal(operation_stats) < MaxAliasOps - 1
    /\ SaveWeeklySelections(selections_data, date, io_ok)

InitAlias == InitAt({Midnight(StartDate)})
NextAlias ==
    \/ SelTick
    \/ ClearMemoryCache
    \/ \E p \in AliasSaves, io_ok \in BOOLEAN : AliasSave(p[1], p[2], io_ok)
    \/ \E d \in SelDates, c \in AliasChanges, io_ok \in BOOLEAN :
          LoadModifySave(d, c[1], c[2], io_ok)
SpecAlias == InitAlias /\ [][NextAlias]_vars

\* C34: a map obtained from load_weekly_selections, modified by the caller and
\* passed to save_weekly_selections is persisted: when the save returns True
\* the file of the week holds exactly the modified map.
C34_ModifiedMapPersisted ==
    [][(last'.op = "load_modify_save" /\ last'.ret = PyTrue)
       => /\ Exists(selections_files', SelectionsPath(last'.date))
          /\ DocumentSelections(load_json_file(selections_files',
                                               SelectionsPath(last'.date))) = last'.data]_vars

-----------------------------------------------------------------------------
(* Specification SpecSaves: request threads inside save_weekly_selections.
   A step is what runs under one lock: the memory lookup, the file write, the
   memory update. *)

\* calls one thread makes
MaxSaveCalls == 2
SaverMaps == {TwoSelections, PyDict([s \in {"Glynny"} |-> SelectionB])}
SaverWeek == strftime(StartDate)

\* a thread at a point of save_weekly_selections(data, SaverWeek)
Saver(at, data, calls, ret) ==
    [at |-> at, op |-> "save_weekly_selections", data |-> data, calls |-> calls,
     ret |-> ret]
SaverData(t) == pc[t].data

SaverUnchanged == UNCHANGED <<now, fixtures_files, last, file_locks, locks, completed,
                              rate_vars>>

SaveCall(t, selections_data) ==
    /\ pc[t].at = "idle"
    /\ pc[t].calls < MaxSaveCalls
    /\ validate_selections(selections_data)
    /\ pc' = [pc EXCEPT ![t] = Saver("memory_check", selections_data, pc[t].calls + 1,
                                     PyNone)]
    /\ UNCHANGED <<selections_files, memory_cache, cache_timestamps, operation_stats>>
    /\ SaverUnchanged

\* cached_data = self._get_memory_cache(cache_key); if cached_data == selections_data
SaveMemoryCheck(t) ==
    /\ pc[t].at = "memory_check"
    /\ \E got \in {get_memory_cache(DM, memory_cache_key("selections", SaverWeek), now)} :
          /\ memory_cache' = got.dm.mem
          /\ cache_timestamps' = got.dm.ts
          /\ operation_stats' = got.dm.stats
          /\ pc' = [pc EXCEPT ![t] =
                       IF got.ret = SaverData(t)
                       THEN Saver("idle", SaverData(t), pc[t].calls, PyTrue)
                       ELSE Saver("write", SaverData(t), pc[t].calls, PyNone)]
    /\ UNCHANGED selections_files
    /\ SaverUnchanged

\* self._save_json_file(filepath, data_to_save, use_compression)
SaveWrite(t, io_ok) ==
    /\ pc[t].at = "write"
    /\ \E saved \in {save_json_file(selections_files, SelectionsPath(SaverWeek),
                                    SelectionsDocument(SaverData(t), SaverWeek, now),
                                    JsonLen(SelectionsDocument(SaverData(t), SaverWeek, now), 0)
                                        > CompressionThreshold,
                                    io_ok)} :
          /\ selections_files' = saved.files
          /\ operation_stats' = IF saved.ok THEN Bump(operation_stats, "writes")
                                ELSE operation_stats
          /\ pc' = [pc EXCEPT ![t] =
                       IF saved.ok
                       THEN Saver("set_memory", SaverData(t), pc[t].calls, PyNone)
                       ELSE Saver("idle", SaverData(t), pc[t].calls, PyFalse)]
    /\ UNCHANGED <<memory_cache, cache_timestamps>>
    /\ SaverUnchanged

\* self._set_memory_cache(cache_key, selections_data); return True
SaveSetMemory(t) ==
    /\ pc[t].at = "set_memory"
    /\ \E dm \in {set_memory_cache(DM, memory_cache_key("selections", SaverWeek),
                                   SaverData(t), now)} :
          /\ memory_cache' = dm.mem
          /\ cache_timestamps' = dm.ts
    /\ pc' = [pc EXCEPT ![t] = Saver("idle", SaverData(t), pc[t].calls, PyTrue)]
    /\ UNCHANGED <<selections_files, operation_stats>>
    /\ SaverUnchanged

InitSaves == InitAt({Midnight(StartDate)})
NextSaves ==
    \/ SelTick
    \/ \E t \in Threads :
          \/ \E selections_data \in SaverMaps : SaveCall(t, selections_data)
          \/ SaveMemoryCheck(t)
          \/ \E io_ok \in BOOLEAN : SaveWrite(t, io_ok)
          \/ SaveSetMemory(t)
SpecSaves == InitSaves /\ [][NextSaves]_vars

\* C35: once every concurrent save_weekly_selections call for the week has
\* returned, the memory entry of the week, if present and unexpired, is the map
\* stored on disk.
C35_MemoryEqualsDiskAfterSaves ==
    (/\ \A t \in Threads : pc[t].at = "idle"
     /\ memory_cache_key("selections", SaverWeek) \in DOMAIN memory_cache
     /\ memory_cache_fresh(cache_timestamps[memory_cache_key("selections", SaverWeek)], now))
    => /\ Exists(selections_files, SelectionsPath(SaverWeek))
       /\ memory_cache[memory_cache_key("selections", SaverWeek)]
            = DocumentSelections(load_json_file(selections_files, SelectionsPath(SaverWeek)))

-----------------------------------------------------------------------------
(* Specification SpecAssigns: two request threads in POST /api/assign *)

\* each thread sends one assign request
MaxAssignCalls == 1
AssignSelectors == {"Glynny", "Eamonn Bone"}
AssignMatchIds == {current_id(MatchA), current_id(MatchB)}

\* a thread of assign_match between its load_selections() and its
\* save_selections(): selectors is the thread's own copy of the week map
Assigner(at, match_id, selector, selectors, calls, ret) ==
    [at |-> at, op |-> "assign_match", match_id |-> match_id, selector |-> selector,
     selectors |-> selectors, calls |-> calls, ret |-> ret]

AssignerUnchanged == UNCHANGED <<now, last, file_locks, locks, completed, rate_vars>>

AssignerSetDM(d) ==
    /\ selections_files' = d.sel
    /\ fixtures_files' = d.fix
    /\ memory_cache' = d.mem
    /\ cache_timestamps' = d.ts
    /\ operation_stats' = d.stats

\* assign_match up to "Check if match is already assigned to another selector":
\* the parameters are valid, the week map is loaded and the selector's own
\* entry is dropped from the copy
AssignLoad(t, match_id, selector) ==
    /\ pc[t].at = "idle"
    /\ pc[t].calls < MaxAssignCalls
    /\ \E loaded \in {load_selections(DM, now)} :
          /\ AssignerSetDM(loaded.dm)
          /\ pc' = [pc EXCEPT ![t] =
                IF \E sel \in DOMAIN loaded.ret.v \ {selector} :
                      /\ "id" \in DOMAIN loaded.ret.v[sel].v
                      /\ loaded.ret.v[sel].v["id"] = match_id
                THEN Assigner("idle", match_id, selector, loaded.ret.v, pc[t].calls + 1,
                              Response(400, "Match already assigned to another selector"))
                ELSE Assigner("loaded", match_id, selector,
                              Without(loaded.ret.v, selector), pc[t].calls + 1, PyNone)]
    /\ AssignerUnchanged

\* the rest of assign_match: the match is looked up, the assignment is put into
\* the thread's copy of the map and the copy is saved
AssignSave(t, page, io_ok) ==
    /\ pc[t].at = "loaded"
    /\ \E r \in {assign_lookup(DM, pc[t].selectors, pc[t].match_id, pc[t].selector,
                               page, now, io_ok)} :
          /\ AssignerSetDM(r.dm)
          /\ pc' = [pc EXCEPT ![t] = Assigner("idle", pc[t].match_id, pc[t].selector,
                                              pc[t].selectors, pc[t].calls, r.ret)]
    /\ AssignerUnchanged

InitAssigns == Init
NextAssigns ==
    \E t \in Threads :
        \/ \E m \in AssignMatchIds, s \in AssignSelectors : AssignLoad(t, m, s)
        \/ \E w \in WebWorlds : AssignSave(t, w[1], w[2])
SpecAssigns == InitAssigns /\ [][NextAssigns]_vars

\* C36: once two assign requests for different selectors and different matches
\* of the week have both returned success, the stored week map holds both
\* assignments.
C36_BothAssignmentsStored ==
    (/\ \A t \in Threads : /\ pc[t].at = "idle"
                           /\ pc[t].op = "assign_match"
                           /\ pc[t].ret.status = 200
     /\ \A t, u \in Threads : t # u => /\ pc[t].selector # pc[u].selector
                                       /\ pc[t].match_id # pc[u].match_id)
    => \A t \in Threads :
          /\ pc[t].selector \in DOMAIN StoredSelections(selections_files, now)
          /\ StoredSelections(selections_files, now)[pc[t].selector].v["home_team"]
               = find_match(WeekBatch.v, pc[t].match_id).v["home_team"]

-----------------------------------------------------------------------------
(* The scraper's target Saturday against the prediction week, under SpecWeek *)

\* C37: at every date and time of day BBCSportScraper._get_next_saturday gives
\* the Saturday that get_current_prediction_week gives, so the week scraped is
\* the week under which selections and fixture caches are keyed.
C37_ScraperWeekIsPredictionWeek ==
    /\ get_next_saturday(now) = strftime(strptime(get_next_saturday(now)))
    /\ last.op = "get_current_prediction_week" =>
          /\ get_next_saturday(last.at) = last.ret
          /\ SelectionsPath(get_next_saturday(last.at)) = SelectionsPath(last.ret)
          /\ FixturesPath(get_next_saturday(last.at), "") = FixturesPath(last.ret, "")
          /\ memory_cache_key("bbc_fixtures", get_next_saturday(last.at))
               = memory_cache_key("bbc_fixtures", last.ret)

\* the week has been asked for at 23:59 on Sunday 2024-10-20, where the two
\* functions take different branches (6 days against (5 - 6) % 7 days)
C37_Witness ==
    /\ last.op = "get_current_prediction_week"
    /\ Weekday(DateOf(last.at)) = Sunday
    /\ MinuteOfDay(last.at) = MinutesPerDay - 1
    /\ get_next_saturday(last.at) = <<2024, 10, 26>>
    /\ last.ret = <<2024, 10, 26>>

-----------------------------------------------------------------------------
(* The accumulator status before kick-off, under SpecTracker *)

\* the summary entry of a match that has not started: not_started at 0-0,
\* which is also the entry of a match absent from the live snapshot
NotStartedEntry(e) ==
    /\ e.v["status"] = PyStr("not_started")
    /\ e.v["home_score"] = PyInt(0)
    /\ e.v["away_score"] = PyInt(0)

\* C38: a summary of at least one selection in which no tracked match has
\* started reports the accumulator as NOT_STARTED, and IN_PROGRESS is reported
\* only when some tracked match is live.
C38_NotStartedBeforeKickOff ==
    (/\ last.op = "get_btts_summary"
     /\ last.ret.status = "ACTIVE"
     /\ last.ret.total_matches >= 1)
    => /\ (\A s \in DOMAIN last.ret.selectors : NotStartedEntry(last.ret.selectors[s]))
             => last.ret.accumulator_status = "NOT_STARTED"
       /\ last.ret.accumulator_status = "IN_PROGRESS"
             => \E s \in DOMAIN last.ret.selectors :
                   last.ret.selectors[s].v["status"] = PyStr("live")

-----------------------------------------------------------------------------
(* Specification SpecPanel: assign, unassign and override requests in any order *)

\* a request starts only while the performance counters add up to less than
\* MaxPanelOps
MaxPanelOps == 9
PanelRequestSelectors == {"Glynny", "Eamonn Bone", "Nobody"}
PanelMatchIds == {current_id(MatchA), current_id(MatchB)}
PanelBodies == {Confirming(required_confirmation), Confirming(PyStr("yes"))}

PanelAssign(match_id, selector, page, io_ok) ==
    /\ StatsTotal(operation_stats) < MaxPanelOps
    /\ Assign(match_id, selector, page, io_ok)

PanelUnassign(selector, io_ok) ==
    /\ StatsTotal(operation_stats) < MaxPanelOps
    /\ Unassign(selector, io_ok)

PanelOverride(data, io_ok) ==
    /\ StatsTotal(operation_stats) < MaxPanelOps
    /\ Idle
    /\ \E r \in {override_selections(DM, data, now, io_ok)} :
          /\ SetDM(r.dm)
          /\ last' = [op |-> "override_selections", data |-> data, selector |-> "",
                      ret |-> r.ret]
          /\ UNCHANGED now

InitPanel == Init
NextPanel ==
    \/ WebTick
    \/ Return
    \/ \E m \in PanelMatchIds, s \in PanelRequestSelectors, w \in WebWorlds :
          PanelAssign(m, s, w[1], w[2])
    \/ \E s \in PanelRequestSelectors, io_ok \in BOOLEAN : PanelUnassign(s, io_ok)
    \/ \E data \in PanelBodies, io_ok \in BOOLEAN : PanelOverride(data, io_ok)
SpecPanel == InitPanel /\ [][NextPanel]_vars

\* C39: after any sequence of assign, unassign and override requests every
\* key of every stored week map is one of the eight panel names, the map has
\* at most eight entries and it passes the validation of selections.
C39_StoredKeysArePanelNames ==
    \A p \in DOMAIN selections_files :
        LET stored == DocumentSelections(load_json_file(selections_files, p))
        IN /\ DOMAIN stored.v \subseteq {"Glynny", "Eamonn Bone", "Mickey D", "Rob Carney",
                                         "Steve H", "Danny", "Eddie Lee", "Fran Radar"}
           /\ Cardinality(DOMAIN stored.v) <= 8
           /\ validate_selections(stored)

\* an override has been saved after Glynny was assigned a match and the entry
\* of Eamonn Bone was removed
C39_Witness ==
    /\ last.op = "override_selections"
    /\ last.ret.status = 200
    /\ DOMAIN StoredSelections(selections_files, now) = {"Glynny"}
    /\ operation_stats.writes >= 3

-----------------------------------------------------------------------------
(* Specification SpecLocksFair: the threads of SpecLocks under a scheduler *)
(* that runs every thread that can take a step                             *)

\* a step of thread t inside the DataManager method it has called
ThreadStep(t) ==
    \/ GetFileLockTest(t)
    \/ GetFileLockCreate(t)
    \/ GetFileLockReturn(t)
    \/ Acquire(t)
    \/ \E data \in {GoodBatch, OtherBatch}, io_ok \in BOOLEAN : FileOperation(t, data, io_ok)
    \/ Release(t)
    \/ StatsRead(t)
    \/ StatsWrite(t)
    \/ GeneralAcquire(t)
    \/ CleanupLocksScan(t)
    \/ CleanupLocksIterate(t)
    \/ CleanupLocksDelete(t)

\* calls each thread makes under SpecLocksFair
MaxFairCalls == 1

FairCall(t, op, filepath) ==
    /\ pc[t].calls < MaxFairCalls
    /\ Call(t, op, filepath)

NextLocksFair ==
    \E t \in Threads :
        \/ \E op \in FileCalls \cup GeneralCalls, f \in LockPaths : FairCall(t, op, f)
        \/ ThreadStep(t)
SpecLocksFair ==
    /\ InitLocks
    /\ [][NextLocksFair]_vars
    /\ \A t \in Threads : WF_vars(ThreadStep(t))

\* the locks thread t owns: self._lock and the per-file locks alike
Held(t) == {l \in DOMAIN locks : locks[l] = t}

\* the thread waits for a lock another thread owns
Blocked(t) ==
    \/ pc[t].at = "acquire" /\ locks[pc[t].lock] \notin {0, t}
    \/ pc[t].at = "general_acquire" /\ locks[GeneralLock] \notin {0, t}

\* C40: no thread owns two locks at once, neither self._lock with a per-file
\* lock nor two per-file locks; a thread that waits for a lock waits for a
\* thread that does not wait; every lock a thread owns is released and every
\* call returns.
C40_NoDeadlock ==
    /\ [](\A t \in Threads :
            /\ Cardinality(Held(t)) <= 1
            /\ pc[t].at = "idle" => Held(t) = {}
            /\ Blocked(t) => \E u \in Threads \ {t} : pc[u].at # "idle" /\ ~ Blocked(u))
    /\ \A t \in Threads : (Held(t) # {}) ~> (Held(t) = {})
    /\ \A t \in Threads : (pc[t].at # "idle") ~> (pc[t].at = "idle")

\* thread 1 waits for the file lock thread 2 owns while thread 2 is inside
\* the with block
C40_Witness ==
    /\ pc[1].at = "acquire"
    /\ pc[2].at = "inside"
    /\ pc[1].lock = pc[2].lock
    /\ Held(2) = {pc[2].lock}
    /\ Blocked(1)

====
